---- MODULE Spec2Model ----
(***************************************************************************)
(* AES-128 block-cipher engine (ECB, CBC, CTR), PKCS#7 padding and its     *)
(* validator, modelled operation by operation from src/src/utils/aes.      *)
(* Byte buffers are sequences of numbers in 0..255 (1-indexed: Rust's      *)
(* buf[i] is buf[i+1] here); u8 arithmetic keeps its width (% 256).        *)
(***************************************************************************)
EXTENDS Integers, Sequences, FiniteSets, TLC

(* The state below is that of a caller: the last call made, its arguments   *)
(* and its result, and, when the call was made on the outcome of the call   *)
(* before it, that call's input and result; the calls of a run of several   *)
(* calls, in order; and, in a run, the engine value an invocation builds    *)
(* and then reads.                                                          *)
VARIABLES
  op,            \* the last call: "init", "encode", "decode", "decode_encoded",
                 \* "flipped", "decode_flipped", "modified", "decode_modified",
                 \* "pad", "validate", "validate_padded",
                 \* "round_keys", "one_round", "decode_same",
                 \* "divide_in_blocks", "from_bytes", "run_encode", "run_decode", "run",
                 \* "one_inverse_round", "apply_round", "apply_inverse_round",
                 \* "transform", "inverse_transform", "galois_multiplication",
                 \* "try_from", "to_flat_array", "decode_other_iv"
  usedKey,       \* key bytes passed to the engine
  usedMode,      \* mode selector passed to the engine
  input,         \* the buffer passed to the call
  usedBlockSize, \* block size passed to pkcs_padding / has_valid_pkcs_padding
  returned,      \* what the call returned
  stages,        \* the stages of the engine the call ran, in order
  prevInput,     \* input of the call before, for a chained call
  prevReturned,  \* result of the call before, for a chained call
  flip,          \* the changes made to the ciphertext held, in order: each the
                 \* index (0-based) and the mask of one `ciphertext[index] ^= mask`
  calls,         \* the calls of a run in order, each with its arguments and result;
                 \* or the further arguments of a call made on a block directly
  engine         \* in a run: the local `aes` of AES::encode / AES::decode, what
                 \* `Self::create_from(key_bytes, mode)` returned to the invocation in
                 \* progress or, between invocations, to the last one (out of scope
                 \* then; AES is plain data, its drop at return runs no code)

vars == <<op, usedKey, usedMode, input, usedBlockSize, returned, stages,
          prevInput, prevReturned, flip, calls, engine>>

Byte == 0..255

(* u8 width: `as u8` casts and u8 arithmetic wrap modulo 2^8. *)
U8 == 256

\* ------------------------------------------------------------------------
\* Sizes and tables (crate::utils::aes::constants)
\* ------------------------------------------------------------------------
AES_BLOCK_SIZE == 16
AES128_KEY_SIZE == 16
AES192_KEY_SIZE == 24
AES256_KEY_SIZE == 32
AES128_ROUNDS == 10

S_BOX ==
  <<
      99, 124, 119, 123, 242, 107, 111, 197,  48,   1, 103,  43, 254, 215, 171, 118,
     202, 130, 201, 125, 250,  89,  71, 240, 173, 212, 162, 175, 156, 164, 114, 192,
     183, 253, 147,  38,  54,  63, 247, 204,  52, 165, 229, 241, 113, 216,  49,  21,
       4, 199,  35, 195,  24, 150,   5, 154,   7,  18, 128, 226, 235,  39, 178, 117,
       9, 131,  44,  26,  27, 110,  90, 160,  82,  59, 214, 179,  41, 227,  47, 132,
      83, 209,   0, 237,  32, 252, 177,  91, 106, 203, 190,  57,  74,  76,  88, 207,
     208, 239, 170, 251,  67,  77,  51, 133,  69, 249,   2, 127,  80,  60, 159, 168,
      81, 163,  64, 143, 146, 157,  56, 245, 188, 182, 218,  33,  16, 255, 243, 210,
     205,  12,  19, 236,  95, 151,  68,  23, 196, 167, 126,  61, 100,  93,  25, 115,
      96, 129,  79, 220,  34,  42, 144, 136,  70, 238, 184,  20, 222,  94,  11, 219,
     224,  50,  58,  10,  73,   6,  36,  92, 194, 211, 172,  98, 145, 149, 228, 121,
     231, 200,  55, 109, 141, 213,  78, 169, 108,  86, 244, 234, 101, 122, 174,   8,
     186, 120,  37,  46,  28, 166, 180, 198, 232, 221, 116,  31,  75, 189, 139, 138,
     112,  62, 181, 102,  72,   3, 246,  14,  97,  53,  87, 185, 134, 193,  29, 158,
     225, 248, 152,  17, 105, 217, 142, 148, 155,  30, 135, 233, 206,  85,  40, 223,
     140, 161, 137,  13, 191, 230,  66, 104,  65, 153,  45,  15, 176,  84, 187,  22 >>

INVERSE_S_BOX ==
  <<
      82,   9, 106, 213,  48,  54, 165,  56, 191,  64, 163, 158, 129, 243, 215, 251,
     124, 227,  57, 130, 155,  47, 255, 135,  52, 142,  67,  68, 196, 222, 233, 203,
      84, 123, 148,  50, 166, 194,  35,  61, 238,  76, 149,  11,  66, 250, 195,  78,
       8,  46, 161, 102,  40, 217,  36, 178, 118,  91, 162,  73, 109, 139, 209,  37,
     114, 248, 246, 100, 134, 104, 152,  22, 212, 164,  92, 204,  93, 101, 182, 146,
     108, 112,  72,  80, 253, 237, 185, 218,  94,  21,  70,  87, 167, 141, 157, 132,
     144, 216, 171,   0, 140, 188, 211,  10, 247, 228,  88,   5, 184, 179,  69,   6,
     208,  44,  30, 143, 202,  63,  15,   2, 193, 175, 189,   3,   1,  19, 138, 107,
      58, 145,  17,  65,  79, 103, 220, 234, 151, 242, 207, 206, 240, 180, 230, 115,
     150, 172, 116,  34, 231, 173,  53, 133, 226, 249,  55, 232,  28, 117, 223, 110,
      71, 241,  26, 113,  29,  41, 197, 137, 111, 183,  98,  14, 170,  24, 190,  27,
     252,  86,  62,  75, 198, 210, 121,  32, 154, 219, 192, 254, 120, 205,  90, 244,
      31, 221, 168,  51, 136,   7, 199,  49, 177,  18,  16,  89,  39, 128, 236,  95,
      96,  81, 127, 169,  25, 181,  74,  13,  45, 229, 122, 159, 147, 201, 156, 239,
     160, 224,  59,  77, 174,  42, 245, 176, 200, 235, 187,  60, 131,  83, 153,  97,
      23,  43,   4, 126, 186, 119, 214,  38, 225, 105,  20,  99,  85,  33,  12, 125 >>

ROUND_CONSTANTS == <<1, 2, 4, 8, 16, 32, 64, 128, 27, 54>>

\* ------------------------------------------------------------------------
\* Bitwise XOR on bytes (Rust's ^ on u8), by nibbles
\* ------------------------------------------------------------------------
RECURSIVE XorBits(_, _, _)
XorBits(a, b, n) ==
  IF n = 0 THEN 0
  ELSE (IF (a % 2) # (b % 2) THEN 1 ELSE 0) + 2 * XorBits(a \div 2, b \div 2, n - 1)

\* XorNibble[a + 1][b + 1] is a ^ b for 4-bit a and b. (SubSeq(f, 1, n) is the
\* function f over 1..n as an n-tuple, each entry computed once.)
XorNibble ==
  SubSeq([a \in 1..16 |-> SubSeq([b \in 1..16 |-> XorBits(a - 1, b - 1, 4)], 1, 16)], 1, 16)

\* a ^ b on bytes: the high nibbles' XOR, then the low nibbles'
Xor(a, b) ==
  16 * XorNibble[(a \div 16) + 1][(b \div 16) + 1] + XorNibble[(a % 16) + 1][(b % 16) + 1]

\* ------------------------------------------------------------------------
\* Results: Ok(value), Err(AESError variant, payload), or the panic raised
\* by unimplemented!()
\* ------------------------------------------------------------------------
Ok(v) == [tag |-> "Ok", val |-> v, err |-> "", arg |-> 0]
Err(e, n) == [tag |-> "Err", val |-> <<>>, err |-> e, arg |-> n]
Unimplemented == [tag |-> "Panic", val |-> <<>>, err |-> "unimplemented", arg |-> 0]
None == [tag |-> "None", val |-> <<>>, err |-> "", arg |-> 0]

\* AESError variants used by the engine
InvalidKeySize(n) == Err("InvalidKeySize", n)
InvalidBlockSize(n) == Err("InvalidBlockSize", n)
PaddingError == Err("PaddingError", 0)

\* ------------------------------------------------------------------------
\* GF(2^8) multiplication (algebra/galois.rs)
\* ------------------------------------------------------------------------
\* Mutant: reduction by x^8 + x^4 + x^3 + x^2 + 1 (0x1d), the polynomial the
\* comment in the code names
RECURSIVE galois_loop_comment_polynomial(_, _, _, _)
galois_loop_comment_polynomial(p, a, b, n) ==
  IF n = 0 THEN p
  ELSE LET p1 == IF b % 2 # 0 THEN Xor(p, a) ELSE p
           hi_bit_set == (a \div 128) % 2
           a1 == (a * 2) % U8
           a2 == IF hi_bit_set # 0 THEN Xor(a1, 29) ELSE a1
       IN  galois_loop_comment_polynomial(p1, a2, b \div 2, n - 1)

RECURSIVE galois_loop(_, _, _, _)
galois_loop(p, a, b, n) ==
  IF n = 0 THEN p
  ELSE LET p1 == IF b % 2 # 0 THEN Xor(p, a) ELSE p
           hi_bit_set == (a \div 128) % 2
           a1 == (a * 2) % U8
           a2 == IF hi_bit_set # 0 THEN Xor(a1, 27) ELSE a1
       IN  galois_loop(p1, a2, b \div 2, n - 1)

galois_multiplication(x, y) == galois_loop(0, x, y, 8)

\* ------------------------------------------------------------------------
\* AESBlock (aes_block.rs): mat[row][col], rows and columns 0..3
\* ------------------------------------------------------------------------
\* A block is a 4-tuple of rows, each a 4-tuple of bytes: mat[i][j] of the code
\* is mat[i + 1][j + 1] here, so i and j run over 1..4 below.
MIX_COLUMN_CT ==
  << <<2, 3, 1, 1>>,
     <<1, 2, 3, 1>>,
     <<1, 1, 2, 3>>,
     <<3, 1, 1, 2>> >>

INV_MIX_COLUMN_CT ==
  << <<14, 11, 13, 9>>,
     <<9, 14, 11, 13>>,
     <<13, 9, 14, 11>>,
     <<11, 13, 9, 14>> >>

\* galois_multiplication(x, y) for y = lo .. hi, in order
RECURSIVE GaloisRange(_, _, _)
GaloisRange(x, lo, hi) ==
  IF lo = hi THEN <<galois_multiplication(x, lo)>>
  ELSE GaloisRange(x, lo, (lo + hi) \div 2) \o GaloisRange(x, ((lo + hi) \div 2) + 1, hi)

\* galois_multiplication(x, y) for the coefficients x of the two mix-column
\* matrices and every byte y, computed once: GaloisTable[x][y + 1] is the
\* product of x and y
GaloisTable ==
  <<GaloisRange(1, 0, U8 - 1), GaloisRange(2, 0, U8 - 1), GaloisRange(3, 0, U8 - 1),
    <<>>, <<>>, <<>>, <<>>, <<>>,
    GaloisRange(9, 0, U8 - 1), <<>>, GaloisRange(11, 0, U8 - 1), <<>>,
    GaloisRange(13, 0, U8 - 1), GaloisRange(14, 0, U8 - 1)>>

\* Mutant: the array is read row by row, mat[i][j] = arr[i * 4 + j]
from_flat_array_row_major(arr) ==
  SubSeq([i \in 1..4 |->
            SubSeq([j \in 1..4 |-> arr[(4 * (i - 1) + (j - 1)) + 1]], 1, 4)], 1, 4)

\* arr is a 16-byte sequence: mat[i][j] = arr[j * 4 + i]
from_flat_array(arr) ==
  SubSeq([i \in 1..4 |->
            SubSeq([j \in 1..4 |-> arr[(4 * (j - 1) + (i - 1)) + 1]], 1, 4)], 1, 4)

\* out[col * 4 + row] = mat[row][col]
to_flat_array(mat) ==
  SubSeq([n \in 1..16 |-> mat[((n - 1) % 4) + 1][((n - 1) \div 4) + 1]], 1, 16)

xor_with_block(mat, other) ==
  SubSeq([i \in 1..4 |-> SubSeq([j \in 1..4 |-> Xor(mat[i][j], other[i][j])], 1, 4)], 1, 4)

add_round_key(mat, round_keys, round) ==
  xor_with_block(mat, from_flat_array(SubSeq(round_keys, (round * 16) + 1, (round * 16) + 16)))

sub_bytes(mat) ==
  SubSeq([i \in 1..4 |-> SubSeq([j \in 1..4 |-> S_BOX[mat[i][j] + 1]], 1, 4)], 1, 4)

inv_sub_bytes(mat) ==
  SubSeq([i \in 1..4 |-> SubSeq([j \in 1..4 |-> INVERSE_S_BOX[mat[i][j] + 1]], 1, 4)], 1, 4)

\* Mutant: row i rotated right by i
shift_rows_right(mat) ==
  SubSeq([i \in 1..4 |->
            SubSeq([j \in 1..4 |-> mat[i][(((j - 1) + 4 - (i - 1)) % 4) + 1]], 1, 4)], 1, 4)

\* row i rotated left by i: new[j] = old[(j + i) mod 4]
shift_rows(mat) ==
  SubSeq([i \in 1..4 |->
            SubSeq([j \in 1..4 |-> mat[i][(((j - 1) + (i - 1)) % 4) + 1]], 1, 4)], 1, 4)

\* Mutant: the inverse rotates the rows left, like shift_rows
inv_shift_rows_left(mat) ==
  SubSeq([i \in 1..4 |->
            SubSeq([j \in 1..4 |-> mat[i][(((j - 1) + (i - 1)) % 4) + 1]], 1, 4)], 1, 4)

\* row i rotated right by i: new[j] = old[(j - i) mod 4]
inv_shift_rows(mat) ==
  SubSeq([i \in 1..4 |->
            SubSeq([j \in 1..4 |-> mat[i][(((j - 1) + 4 - (i - 1)) % 4) + 1]], 1, 4)], 1, 4)

\* result[i][j] ^= galois_multiplication(first[i][k], second[k][j]) for k in 0..4;
\* first is one of the two mix-column matrices, whose products GaloisTable holds
matrix_gmult(first, second) ==
  SubSeq([i \in 1..4 |->
            SubSeq([j \in 1..4 |->
                      Xor(Xor(Xor(Xor(0, GaloisTable[first[i][1]][second[1][j] + 1]),
                                  GaloisTable[first[i][2]][second[2][j] + 1]),
                              GaloisTable[first[i][3]][second[3][j] + 1]),
                          GaloisTable[first[i][4]][second[4][j] + 1])], 1, 4)], 1, 4)

\* Mutant: the last round mixes the columns too
mix_columns_every_round(mat, ignore) == matrix_gmult(MIX_COLUMN_CT, mat)

mix_columns(mat, ignore) == IF ignore THEN mat ELSE matrix_gmult(MIX_COLUMN_CT, mat)

inv_mix_columns(mat, ignore) == IF ignore THEN mat ELSE matrix_gmult(INV_MIX_COLUMN_CT, mat)

apply_round(mat, round_keys, round, ignore) ==
  add_round_key(mix_columns(shift_rows(sub_bytes(mat)), ignore), round_keys, round)

\* Mutant: the inverse round mixes the columns before it adds the round key
apply_inverse_round_mix_first(mat, round_keys, round, ignore) ==
  inv_sub_bytes(inv_shift_rows(add_round_key(inv_mix_columns(mat, ignore), round_keys, round)))

apply_inverse_round(mat, round_keys, round, ignore) ==
  inv_sub_bytes(inv_shift_rows(inv_mix_columns(add_round_key(mat, round_keys, round), ignore)))

\* ------------------------------------------------------------------------
\* Key material (aes_key.rs)
\* ------------------------------------------------------------------------
\* Mutant: any key of 16 bytes or more is taken as an AES-128 key (its first 16 bytes)
AESKey_try_from_truncating(value) ==
  IF Len(value) >= AES128_KEY_SIZE
  THEN Ok([variant |-> "AES128Key", bytes |-> SubSeq(value, 1, AES128_KEY_SIZE)])
  ELSE InvalidKeySize(Len(value))

AESKey_try_from(value) ==
  LET length == Len(value)
  IN  IF length = AES128_KEY_SIZE THEN Ok([variant |-> "AES128Key", bytes |-> value])
      ELSE IF length = AES192_KEY_SIZE THEN Ok([variant |-> "AES192Key", bytes |-> value])
      ELSE IF length = AES256_KEY_SIZE THEN Ok([variant |-> "AES256Key", bytes |-> value])
      ELSE InvalidKeySize(length)

from_bytes(key_bytes) == AESKey_try_from(key_bytes)

\* the key as a sequence of 4-byte words
divide_in_words(key) ==
  [w \in 1..(Len(key.bytes) \div 4) |->
     <<key.bytes[4 * w - 3], key.bytes[4 * w - 2], key.bytes[4 * w - 1], key.bytes[4 * w]>>]

\* Mutant: the word is not rotated before the S-box
word_modifier_no_rotation(word, round) ==
  LET subbed == [k \in 1..4 |-> S_BOX[word[k] + 1]]
  IN  <<Xor(subbed[1], ROUND_CONSTANTS[(round - 1) + 1]), subbed[2], subbed[3], subbed[4]>>

\* ------------------------------------------------------------------------
\* Key schedule and padding (aes/utils.rs, aes.rs)
\* ------------------------------------------------------------------------
\* rotate_left(1), S_BOX on every byte, then byte 0 ^= ROUND_CONSTANTS[round - 1]
word_modifier(word, round) ==
  LET temp == <<word[2], word[3], word[4], word[1]>>
      subbed == [k \in 1..4 |-> S_BOX[temp[k] + 1]]
  IN  <<Xor(subbed[1], ROUND_CONSTANTS[(round - 1) + 1]), subbed[2], subbed[3], subbed[4]>>

\* concatenation of a sequence of sequences (flat_map / flatten / concat),
\* computed by halves: the first half's concatenation, then the second half's
RECURSIVE Flatten(_)
Flatten(seqs) ==
  IF Len(seqs) = 0 THEN <<>>
  ELSE IF Len(seqs) = 1 THEN seqs[1]
  ELSE Flatten(SubSeq(seqs, 1, Len(seqs) \div 2))
         \o Flatten(SubSeq(seqs, (Len(seqs) \div 2) + 1, Len(seqs)))

\* words-per-key
WK == 4

\* one iteration of the key-schedule loop: words.push(words[i - WK] ^ temp);
\* words[i] of the code is words[i + 1] here
push_word(words, i) ==
  LET previous == words[(i - 1) + 1]
      temp == IF i % WK = 0 THEN word_modifier(previous, i \div WK) ELSE previous
      back == words[(i - WK) + 1]
  IN  Append(words, <<Xor(back[1], temp[1]), Xor(back[2], temp[2]),
                      Xor(back[3], temp[3]), Xor(back[4], temp[4])>>)

\* for i in WK..WK * (AES128_ROUNDS + 1): the iterations i .. i + WK - 1 of one
\* round key, then the rest (words holds i words when iteration i starts: reading
\* Len(words) only makes the words pushed so far computed values, as in the code)
RECURSIVE expand_words(_, _)
expand_words(words, i) ==
  IF i >= WK * (AES128_ROUNDS + 1) \/ Len(words) # i THEN words
  ELSE expand_words(push_word(push_word(push_word(push_word(words, i), i + 1), i + 2), i + 3),
                    i + WK)

aes_128_get_round_keys(key) ==
  LET words == expand_words(divide_in_words(key), WK)
  IN  Flatten(words)

\* diff copies of the byte diff
Repeat(b, n) == [i \in 1..n |-> b]

\* Mutant: PKCS#7 as standardised, an aligned buffer gains a whole block of padding
pkcs_padding_full_block(bytes, final_length) ==
  LET text_length == Len(bytes) % U8
      remainder == text_length % final_length
  IN  bytes \o Repeat(final_length - remainder, final_length - remainder)

pkcs_padding(bytes, final_length) ==
  LET text_length == Len(bytes) % U8
      remainder == text_length % final_length
  IN  IF remainder # 0
      THEN bytes \o Repeat(final_length - remainder, final_length - remainder)
      ELSE bytes

\* Mutant: the error carries the position of the first byte that differs
padding_scan_reporting(byte_slice, start, padding_len) ==
  IF \E k \in start..Len(byte_slice) : byte_slice[k] # padding_len
  THEN Err("PaddingError",
           CHOOSE k \in start..Len(byte_slice) :
             /\ byte_slice[k] # padding_len
             /\ \A j \in start..(k - 1) : byte_slice[j] = padding_len)
  ELSE Ok(<<>>)

\* the loop over byte_slice[padding_start..]: Err at the first byte that differs
\* from padding_len, Ok when there is none (start is the 1-based padding_start)
padding_scan(byte_slice, start, padding_len) ==
  IF \E k \in start..Len(byte_slice) : byte_slice[k] # padding_len THEN PaddingError
  ELSE Ok(<<>>)

\* Mutant: the padding count is not compared with the block size
has_valid_pkcs_padding_any_count(bytes, block_size) ==
  IF Len(bytes) = 0 THEN PaddingError
  ELSE LET padding_len == bytes[Len(bytes)]
       IN  IF padding_len = 0 THEN PaddingError
           ELSE IF Len(bytes) < padding_len THEN PaddingError
           ELSE padding_scan(bytes, (Len(bytes) - padding_len) + 1, padding_len)

has_valid_pkcs_padding(bytes, block_size) ==
  IF Len(bytes) = 0 THEN PaddingError
  ELSE LET padding_len == bytes[Len(bytes)]
       IN  IF padding_len = 0 \/ padding_len > block_size THEN PaddingError
           ELSE IF Len(bytes) < padding_len THEN PaddingError
           ELSE padding_scan(bytes, (Len(bytes) - padding_len) + 1, padding_len)

\* ------------------------------------------------------------------------
\* AES engine (aes.rs)
\* ------------------------------------------------------------------------
\* Mutant: the engine of the previous invocation is kept, with its key
create_from_kept_engine(key_bytes, mode) ==
  LET k == from_bytes(key_bytes)
  IN  IF engine.tag = "Ok" THEN Ok([key |-> engine.val.key, mode |-> mode])
      ELSE IF k.tag = "Err" THEN k ELSE Ok([key |-> k.val, mode |-> mode])

create_from(key_bytes, mode) ==
  LET k == from_bytes(key_bytes)
  IN  IF k.tag = "Err" THEN k ELSE Ok([key |-> k.val, mode |-> mode])

validate_text_size(text) ==
  IF Len(text) = 0 THEN InvalidBlockSize(Len(text)) ELSE Ok(<<>>)

AESBlock_try_from(value) ==
  IF Len(value) # 16 THEN InvalidBlockSize(Len(value)) ELSE Ok(from_flat_array(value))

\* the first Err of a sequence of results, else Ok of the unwrapped values
Collect(results) ==
  IF \E i \in 1..Len(results) : results[i].tag = "Err"
  THEN results[CHOOSE i \in 1..Len(results) :
                 /\ results[i].tag = "Err"
                 /\ \A j \in 1..(i - 1) : results[j].tag # "Err"]
  ELSE Ok([i \in 1..Len(results) |-> results[i].val])

divide_in_blocks(text) ==
  IF validate_text_size(text).tag = "Err" THEN validate_text_size(text)
  ELSE LET text_len == Len(text)
           blocks_amount == text_len \div AES_BLOCK_SIZE
       IN  Collect([i \in 1..blocks_amount |->
                      AESBlock_try_from(SubSeq(text, (i - 1) * AES_BLOCK_SIZE + 1, i * AES_BLOCK_SIZE))])

AESBlock_from_bytes(bytes) ==
  IF Len(bytes) % 16 # 0 THEN InvalidBlockSize(Len(bytes))
  ELSE Collect([i \in 1..(Len(bytes) \div 16) |->
                  AESBlock_try_from(SubSeq(bytes, (i - 1) * 16 + 1, i * 16))])

return_blocks_as_bytes(blocks) == Flatten([i \in 1..Len(blocks) |-> to_flat_array(blocks[i])])

\* Mutant: the rounds of the encode pipeline run from the last to the first
RECURSIVE forward_rounds_descending(_, _, _, _)
forward_rounds_descending(mat, round_keys, first, last) ==
  IF first > last \/ Len(mat) # 4 THEN mat
  ELSE IF first = last THEN apply_round(mat, round_keys, first, first = AES128_ROUNDS)
  ELSE forward_rounds_descending(
         forward_rounds_descending(mat, round_keys, ((first + last) \div 2) + 1, last),
         round_keys, first, (first + last) \div 2)

\* for round in 1..=AES128_ROUNDS { block.apply_round(keys, round, round == AES128_ROUNDS) }
\* The iterations first..last of the loop, in order: one iteration, or the
\* iterations of the lower half of the range and then those of the upper half.
\* (A block always has 4 rows: reading Len(mat) only makes the block of the previous
\* iterations a computed value before the next ones start, as in the code.)
RECURSIVE forward_rounds(_, _, _, _)
forward_rounds(mat, round_keys, first, last) ==
  IF first > last \/ Len(mat) # 4 THEN mat
  ELSE IF first = last THEN apply_round(mat, round_keys, first, first = AES128_ROUNDS)
  ELSE forward_rounds(forward_rounds(mat, round_keys, first, (first + last) \div 2),
                      round_keys, ((first + last) \div 2) + 1, last)

\* for round in (1..=AES128_ROUNDS).rev() { block.apply_inverse_round(...) }
\* The iterations first, first - 1, .., last of the loop, in that order
RECURSIVE inverse_rounds(_, _, _, _)
inverse_rounds(mat, round_keys, first, last) ==
  IF first < last \/ Len(mat) # 4 THEN mat
  ELSE IF first = last THEN apply_inverse_round(mat, round_keys, first, first = AES128_ROUNDS)
  ELSE inverse_rounds(inverse_rounds(mat, round_keys, first, ((first + last) \div 2) + 1),
                      round_keys, (first + last) \div 2, last)

\* the per-block pipelines of the encode and decode loops. (The functions below
\* read Len(round_keys) where the code computes the key schedule: it always has
\* 16 * (AES128_ROUNDS + 1) bytes, and reading it only makes the schedule a
\* computed value before the first block is processed, as in the code.)
encrypt_block(mat, round_keys) ==
  forward_rounds(add_round_key(mat, round_keys, 0), round_keys, 1, AES128_ROUNDS)

decrypt_block(mat, round_keys) ==
  add_round_key(inverse_rounds(mat, round_keys, AES128_ROUNDS, 1), round_keys, 0)

\* Mutant: every block after the first is XORed with the plaintext block before it
aes_128_ecb_encode_chained(aes, plaintext) ==
  LET padded_text == pkcs_padding(plaintext, AES_BLOCK_SIZE % U8)
      blocks == divide_in_blocks(padded_text)
      round_keys == aes_128_get_round_keys(aes.key)
  IN  IF blocks.tag = "Err" \/ Len(round_keys) # 16 * (AES128_ROUNDS + 1) THEN blocks
      ELSE Ok(Flatten([i \in 1..Len(blocks.val) |->
                         to_flat_array(encrypt_block(
                           IF i = 1 THEN blocks.val[i]
                           ELSE xor_with_block(blocks.val[i], blocks.val[i - 1]),
                           round_keys))]))

aes_128_ecb_encode(aes, plaintext) ==
  LET padded_text == pkcs_padding(plaintext, AES_BLOCK_SIZE % U8)
      blocks == divide_in_blocks(padded_text)
      round_keys == aes_128_get_round_keys(aes.key)
  IN  IF blocks.tag = "Err" \/ Len(round_keys) # 16 * (AES128_ROUNDS + 1) THEN blocks
      ELSE Ok(Flatten([i \in 1..Len(blocks.val) |->
                         to_flat_array(encrypt_block(blocks.val[i], round_keys))]))

\* Mutant: a ciphertext that is not a whole number of blocks is rejected
aes_128_ecb_decode_rejecting_misaligned(aes, ciphertext) ==
  LET round_keys == aes_128_get_round_keys(aes.key)
      blocks == divide_in_blocks(ciphertext)
  IN  IF Len(ciphertext) % AES_BLOCK_SIZE # 0 THEN InvalidBlockSize(Len(ciphertext))
      ELSE IF Len(round_keys) # 16 * (AES128_ROUNDS + 1) \/ blocks.tag = "Err" THEN blocks
      ELSE Ok(return_blocks_as_bytes([i \in 1..Len(blocks.val) |->
                                        decrypt_block(blocks.val[i], round_keys)]))

aes_128_ecb_decode(aes, ciphertext) ==
  LET round_keys == aes_128_get_round_keys(aes.key)
      padded_text == pkcs_padding(ciphertext, AES_BLOCK_SIZE % U8)
      blocks == divide_in_blocks(padded_text)
  IN  IF Len(round_keys) # 16 * (AES128_ROUNDS + 1) \/ blocks.tag = "Err" THEN blocks
      ELSE Ok(return_blocks_as_bytes([i \in 1..Len(blocks.val) |->
                                        decrypt_block(blocks.val[i], round_keys)]))

\* Mutant: every block after the first is encrypted on its own, without chaining
RECURSIVE cbc_encode_loop_unchained(_, _, _, _)
cbc_encode_loop_unchained(blocks, round_keys, from, to) ==
  IF from >= to \/ Len(blocks) = 0 THEN blocks
  ELSE IF from + 1 = to
       THEN [blocks EXCEPT ![from + 1] = encrypt_block(blocks[from + 1], round_keys)]
  ELSE cbc_encode_loop_unchained(cbc_encode_loop_unchained(blocks, round_keys, from, (from + to) \div 2),
                                 round_keys, (from + to) \div 2, to)

\* for i in 1..blocks.len(): blocks[i] of the code is blocks[i + 1] here. The
\* iterations i = from .. to - 1 of the loop, in order: one iteration, or the
\* iterations of the lower half of the range and then those of the upper half.
\* (Reading Len(blocks) only makes the blocks of the previous iterations
\* computed values before the next ones start, as in the code.)
RECURSIVE cbc_encode_loop(_, _, _, _)
cbc_encode_loop(blocks, round_keys, from, to) ==
  IF from >= to \/ Len(blocks) = 0 THEN blocks
  ELSE IF from + 1 = to
       THEN [blocks EXCEPT ![from + 1] =
               encrypt_block(xor_with_block(blocks[from + 1], blocks[(from - 1) + 1]), round_keys)]
  ELSE cbc_encode_loop(cbc_encode_loop(blocks, round_keys, from, (from + to) \div 2),
                       round_keys, (from + to) \div 2, to)

aes_128_cbc_encode(aes, plaintext, iv) ==
  LET round_keys == aes_128_get_round_keys(aes.key)
      padded_text == pkcs_padding(plaintext, AES_BLOCK_SIZE % U8)
      blocks == divide_in_blocks(padded_text)
  IN  IF Len(round_keys) # 16 * (AES128_ROUNDS + 1) \/ blocks.tag = "Err" THEN blocks
      ELSE LET first == encrypt_block(xor_with_block(blocks.val[1], from_flat_array(iv)), round_keys)
           IN  Ok(return_blocks_as_bytes(
                    cbc_encode_loop([blocks.val EXCEPT ![1] = first], round_keys,
                                    1, Len(blocks.val))))

\* Mutant: no snapshot, block i is XORed with block i - 1 as already decrypted
RECURSIVE cbc_decode_loop_no_snapshot(_, _, _, _, _)
cbc_decode_loop_no_snapshot(blocks, ciphered_blocks, round_keys, from, to) ==
  IF from >= to \/ Len(blocks) = 0 THEN blocks
  ELSE IF from + 1 = to
       THEN [blocks EXCEPT ![from + 1] =
               xor_with_block(decrypt_block(blocks[from + 1], round_keys), blocks[(from - 1) + 1])]
  ELSE cbc_decode_loop_no_snapshot(
         cbc_decode_loop_no_snapshot(blocks, ciphered_blocks, round_keys, from, (from + to) \div 2),
         ciphered_blocks, round_keys, (from + to) \div 2, to)

\* for i in 1..blocks.len(), the iterations i = from .. to - 1 in order, like
\* cbc_encode_loop; ciphered_blocks is the copy of the blocks taken before the loop
RECURSIVE cbc_decode_loop(_, _, _, _, _)
cbc_decode_loop(blocks, ciphered_blocks, round_keys, from, to) ==
  IF from >= to \/ Len(blocks) = 0 THEN blocks
  ELSE IF from + 1 = to
       THEN [blocks EXCEPT ![from + 1] =
               xor_with_block(decrypt_block(blocks[from + 1], round_keys),
                              ciphered_blocks[(from - 1) + 1])]
  ELSE cbc_decode_loop(
         cbc_decode_loop(blocks, ciphered_blocks, round_keys, from, (from + to) \div 2),
         ciphered_blocks, round_keys, (from + to) \div 2, to)

\* Mutant: block 0 is not XORed with the IV
aes_128_cbc_decode_no_iv(aes, ciphertext, iv) ==
  LET round_keys == aes_128_get_round_keys(aes.key)
      padded_text == pkcs_padding(ciphertext, AES_BLOCK_SIZE % U8)
      blocks == divide_in_blocks(padded_text)
  IN  IF Len(round_keys) # 16 * (AES128_ROUNDS + 1) \/ blocks.tag = "Err" THEN blocks
      ELSE LET ciphered_blocks == blocks.val
               first == decrypt_block(blocks.val[1], round_keys)
           IN  Ok(return_blocks_as_bytes(
                    cbc_decode_loop([blocks.val EXCEPT ![1] = first], ciphered_blocks, round_keys,
                                    1, Len(blocks.val))))

\* Mutant: block 0 is XORed with the IV before it is decrypted
aes_128_cbc_decode_iv_before_rounds(aes, ciphertext, iv) ==
  LET round_keys == aes_128_get_round_keys(aes.key)
      padded_text == pkcs_padding(ciphertext, AES_BLOCK_SIZE % U8)
      blocks == divide_in_blocks(padded_text)
  IN  IF Len(round_keys) # 16 * (AES128_ROUNDS + 1) \/ blocks.tag = "Err" THEN blocks
      ELSE LET ciphered_blocks == blocks.val
               first == decrypt_block(xor_with_block(blocks.val[1], from_flat_array(iv)), round_keys)
           IN  Ok(return_blocks_as_bytes(
                    cbc_decode_loop([blocks.val EXCEPT ![1] = first], ciphered_blocks, round_keys,
                                    1, Len(blocks.val))))

\* Mutant: the copy of the blocks is taken after block 0 was decrypted in place
aes_128_cbc_decode_late_snapshot(aes, ciphertext, iv) ==
  LET round_keys == aes_128_get_round_keys(aes.key)
      padded_text == pkcs_padding(ciphertext, AES_BLOCK_SIZE % U8)
      blocks == divide_in_blocks(padded_text)
  IN  IF Len(round_keys) # 16 * (AES128_ROUNDS + 1) \/ blocks.tag = "Err" THEN blocks
      ELSE LET first == xor_with_block(decrypt_block(blocks.val[1], round_keys), from_flat_array(iv))
               ciphered_blocks == [blocks.val EXCEPT ![1] = first]
           IN  Ok(return_blocks_as_bytes(
                    cbc_decode_loop([blocks.val EXCEPT ![1] = first], ciphered_blocks, round_keys,
                                    1, Len(blocks.val))))

aes_128_cbc_decode(aes, ciphertext, iv) ==
  LET round_keys == aes_128_get_round_keys(aes.key)
      padded_text == pkcs_padding(ciphertext, AES_BLOCK_SIZE % U8)
      blocks == divide_in_blocks(padded_text)
  IN  IF Len(round_keys) # 16 * (AES128_ROUNDS + 1) \/ blocks.tag = "Err" THEN blocks
      ELSE LET ciphered_blocks == blocks.val
               first == xor_with_block(decrypt_block(blocks.val[1], round_keys), from_flat_array(iv))
           IN  Ok(return_blocks_as_bytes(
                    cbc_decode_loop([blocks.val EXCEPT ![1] = first], ciphered_blocks, round_keys,
                                    1, Len(blocks.val))))

\* u64::to_le_bytes: 8 bytes, least significant first
RECURSIVE le_bytes(_, _)
le_bytes(n, count) == IF count = 0 THEN <<>> ELSE <<n % 256>> \o le_bytes(n \div 256, count - 1)

to_le_bytes(n) == le_bytes(n, 8)

\* Mutant: chunks_exact(16), the final partial chunk is left out
Chunk_exact(text, c) ==
  IF 16 * (c + 1) <= Len(text) THEN SubSeq(text, 16 * c + 1, 16 * (c + 1)) ELSE <<>>

\* text.chunks(16): chunk c (from 0) of the text
Chunk(text, c) ==
  SubSeq(text, 16 * c + 1, IF 16 * (c + 1) < Len(text) THEN 16 * (c + 1) ELSE Len(text))

NumChunks(text) == (Len(text) + 15) \div 16

\* block = chunk ^ s, byte by byte up to the chunk's length; the `?` on s first
xor_chunk(s, chunk) ==
  IF s.tag = "Err" THEN s ELSE Ok([i \in 1..Len(chunk) |-> Xor(chunk[i], s.val[i])])

\* Mutant: the counter of the first chunk is 1
ctr_loop_counter_from_one(aes, text, nonce, ctr) ==
  xor_chunk(aes_128_ecb_encode(aes, to_le_bytes(nonce) \o to_le_bytes(ctr + 1)), Chunk(text, ctr))

\* one iteration of the loop over text.chunks(16).enumerate(): the bytes it
\* appends to result, or the error of the keystream's encryption
ctr_loop(aes, text, nonce, ctr) ==
  xor_chunk(aes_128_ecb_encode(aes, to_le_bytes(nonce) \o to_le_bytes(ctr)), Chunk(text, ctr))

\* result after the loop: what the iterations appended, in order, unless one failed
ctr_result(appended) == IF appended.tag = "Err" THEN appended ELSE Ok(Flatten(appended.val))

aes_128_ctr(aes, text, nonce) ==
  ctr_result(Collect([c \in 1..NumChunks(text) |-> ctr_loop(aes, text, nonce, c - 1)]))

\* Mode selector (AESMode): kind, and the IV or nonce it carries
ECB == [kind |-> "ECB", iv |-> <<>>, nonce |-> 0]
CBC(iv) == [kind |-> "CBC", iv |-> iv, nonce |-> 0]
CTR(nonce) == [kind |-> "CTR", iv |-> <<>>, nonce |-> nonce]
GCM == [kind |-> "GCM", iv |-> <<>>, nonce |-> 0]

\* Mutant: every key size is routed to the AES-128 functions
encode_any_key_size(plaintext, key_bytes, mode) ==
  LET made == create_from(key_bytes, mode)
      aes == made.val
  IN  IF made.tag = "Err" THEN made
      ELSE IF aes.mode.kind = "ECB" THEN aes_128_ecb_encode(aes, plaintext)
      ELSE IF aes.mode.kind = "CBC" THEN aes_128_cbc_encode(aes, plaintext, aes.mode.iv)
      ELSE IF aes.mode.kind = "CTR" THEN aes_128_ctr(aes, plaintext, aes.mode.nonce)
      ELSE Unimplemented

\* AES::encode from the `?` on what create_from returned: the error, or the
\* match on the mode and the key of the engine made
encode_match(made, plaintext) ==
  LET aes == made.val
  IN  IF made.tag = "Err" THEN made
      ELSE IF aes.mode.kind = "ECB"
           THEN IF aes.key.variant = "AES128Key" THEN aes_128_ecb_encode(aes, plaintext)
                ELSE Unimplemented
      ELSE IF aes.mode.kind = "CBC"
           THEN IF aes.key.variant = "AES128Key"
                THEN aes_128_cbc_encode(aes, plaintext, aes.mode.iv)
                ELSE Unimplemented
      ELSE IF aes.mode.kind = "CTR"
           THEN IF aes.key.variant = "AES128Key"
                THEN aes_128_ctr(aes, plaintext, aes.mode.nonce)
                ELSE Unimplemented
      ELSE Unimplemented

encode(plaintext, key_bytes, mode) ==
  LET made == create_from(key_bytes, mode)
  IN  encode_match(made, plaintext)

\* Mutant: the CTR arm of decode has its own routine, the block decryption
decode_ctr_by_block_decode(ciphertext, key_bytes, mode) ==
  LET made == create_from(key_bytes, mode)
      aes == made.val
  IN  IF made.tag = "Err" THEN made
      ELSE IF aes.mode.kind = "ECB"
           THEN IF aes.key.variant = "AES128Key" THEN aes_128_ecb_decode(aes, ciphertext)
                ELSE Unimplemented
      ELSE IF aes.mode.kind = "CBC"
           THEN IF aes.key.variant = "AES128Key" THEN aes_128_cbc_decode(aes, ciphertext, aes.mode.iv)
                ELSE Unimplemented
      ELSE IF aes.mode.kind = "CTR"
           THEN IF aes.key.variant = "AES128Key" THEN aes_128_ecb_decode(aes, ciphertext)
                ELSE Unimplemented
      ELSE Unimplemented

\* Mutant: the recovered plaintext must end in valid padding, else PaddingError
decode_checking_padding(ciphertext, key_bytes, mode) ==
  LET made == create_from(key_bytes, mode)
      aes == made.val
      plaintext ==
        IF aes.mode.kind = "ECB"
        THEN IF aes.key.variant = "AES128Key" THEN aes_128_ecb_decode(aes, ciphertext)
             ELSE Unimplemented
        ELSE IF aes.mode.kind = "CBC"
             THEN IF aes.key.variant = "AES128Key"
                  THEN aes_128_cbc_decode(aes, ciphertext, aes.mode.iv)
                  ELSE Unimplemented
        ELSE IF aes.mode.kind = "CTR"
             THEN IF aes.key.variant = "AES128Key" THEN aes_128_ctr(aes, ciphertext, aes.mode.nonce)
                  ELSE Unimplemented
        ELSE Unimplemented
  IN  IF made.tag = "Err" THEN made
      ELSE IF plaintext.tag = "Ok" /\ aes.mode.kind # "CTR"
              /\ has_valid_pkcs_padding(plaintext.val, AES_BLOCK_SIZE % U8).tag = "Err"
           THEN PaddingError
      ELSE plaintext

\* AES::decode from the `?` on what create_from returned: the error, or the
\* match on the mode and the key of the engine made
decode_match(made, ciphertext) ==
  LET aes == made.val
  IN  IF made.tag = "Err" THEN made
      ELSE IF aes.mode.kind = "ECB"
           THEN IF aes.key.variant = "AES128Key" THEN aes_128_ecb_decode(aes, ciphertext)
                ELSE Unimplemented
      ELSE IF aes.mode.kind = "CBC"
           THEN IF aes.key.variant = "AES128Key"
                THEN aes_128_cbc_decode(aes, ciphertext, aes.mode.iv)
                ELSE Unimplemented
      ELSE IF aes.mode.kind = "CTR"
           THEN IF aes.key.variant = "AES128Key"
                THEN aes_128_ctr(aes, ciphertext, aes.mode.nonce)
                ELSE Unimplemented
      ELSE Unimplemented

decode(ciphertext, key_bytes, mode) ==
  LET made == create_from(key_bytes, mode)
  IN  decode_match(made, ciphertext)

\* ------------------------------------------------------------------------
\* The stages a call runs, in order (same control flow as the functions above)
\* ------------------------------------------------------------------------
ecb_encode_stages(text) ==
  <<"pkcs_padding", "divide_in_blocks">>
    \o (IF divide_in_blocks(pkcs_padding(text, AES_BLOCK_SIZE % U8)).tag = "Err" THEN <<>>
        ELSE <<"get_round_keys", "rounds">>)

block_decode_stages(text) ==
  <<"get_round_keys", "pkcs_padding", "divide_in_blocks">>
    \o (IF divide_in_blocks(pkcs_padding(text, AES_BLOCK_SIZE % U8)).tag = "Err" THEN <<>>
        ELSE <<"rounds">>)

cbc_encode_stages(text) ==
  <<"get_round_keys", "pkcs_padding", "divide_in_blocks">>
    \o (IF divide_in_blocks(pkcs_padding(text, AES_BLOCK_SIZE % U8)).tag = "Err" THEN <<>>
        ELSE <<"rounds">>)

ctr_stages(text, nonce) ==
  Flatten([c \in 1..NumChunks(text) |->
             ecb_encode_stages(to_le_bytes(nonce) \o to_le_bytes(c - 1))])

call_stages(which, text, key_bytes, mode_arg) ==
  <<"create_from">>
    \o (IF create_from(key_bytes, mode_arg).tag = "Err" THEN <<>>
        ELSE IF mode_arg.kind = "GCM" \/ create_from(key_bytes, mode_arg).val.key.variant # "AES128Key"
             THEN <<"unimplemented">>
        ELSE IF mode_arg.kind = "CTR" THEN ctr_stages(text, mode_arg.nonce)
        ELSE IF which = "decode" THEN block_decode_stages(text)
        ELSE IF mode_arg.kind = "CBC" THEN cbc_encode_stages(text)
        ELSE ecb_encode_stages(text))

\* ------------------------------------------------------------------------
\* Inputs of the calls
\* ------------------------------------------------------------------------
MaxBlocks == 2      \* buffers of up to MaxBlocks whole blocks, plus 0, 1 or 15 bytes
NumSeeds == 2       \* contents per buffer length
NumKeys == 2        \* 16-byte keys
NumIVs == 1         \* CBC initialization vectors
MaxNonce == 1       \* CTR nonces 0, 257, ..., 257 * MaxNonce
MaxKeyLen == 33     \* key lengths 0..MaxKeyLen offered to the engine
MaxPadLen == 18     \* buffer lengths 0..MaxPadLen offered to pkcs_padding
MaxWrap == 2        \* and lengths U8 - 1 .. U8 + MaxWrap, around the u8 wrap
MaxBlockSize == 5   \* block sizes 0..MaxBlockSize, and 16, 20 and 255
MaxValLen == 4      \* has_valid_pkcs_padding: buffers of up to MaxValLen bytes
MaxValByte == 3     \* with bytes 0..MaxValByte, and 17

\* odd seeds repeat with period 16 (equal blocks), even seeds do not
Text(len, seed) ==
  [i \in 1..len |-> IF seed % 2 = 1 THEN (((i - 1) % 16) * 17 + seed) % 256
                    ELSE (i * 13 + seed * 29) % 256]

Lens == {16 * b + d : b \in 0..MaxBlocks, d \in {0, 1, 15}}
LongTexts == {Text(U8, 1), Text(U8 + 1, 2)}
Texts == {Text(len, seed) : len \in Lens, seed \in 1..NumSeeds} \cup LongTexts

KeyBytes(len, seed) == [i \in 1..len |-> (seed * 53 + i * 7 * seed + i) % 256]
Keys16 == {KeyBytes(16, seed) : seed \in 1..NumKeys}
KeysAnyLen == {KeyBytes(len, 1) : len \in 0..MaxKeyLen}

IVs == {[i \in 1..16 |-> (seed * (i * 31 + 3)) % 256] : seed \in 1..NumIVs}
Nonces == {257 * n : n \in 0..MaxNonce}
Modes == {ECB} \cup {CBC(iv) : iv \in IVs} \cup {CTR(n) : n \in Nonces}
AllModes == Modes \cup {GCM}

\* block-aligned ciphertexts of 1 .. MaxBlocks + 1 blocks
Ciphertexts == {Text(16 * b, 2) : b \in 1..(MaxBlocks + 1)}
FlipOffsets == {0, 15}

PadLens == (0..MaxPadLen) \cup ((U8 - 1)..(U8 + MaxWrap))
PadBuffers == {Text(len, 2) : len \in PadLens}
PadSizes == (1..MaxBlockSize) \cup {16, 20, 255}
BlockSizes == (0..MaxBlockSize) \cup {16, 20, 255}
ValBytes == (0..MaxValByte) \cup {17}
ValBuffers == UNION {[1..n -> ValBytes] : n \in 0..MaxValLen}

\* ------------------------------------------------------------------------
\* State machine
\* ------------------------------------------------------------------------
Init ==
  /\ op = "init"
  /\ usedKey = <<>>
  /\ usedMode = ECB
  /\ input = <<>>
  /\ usedBlockSize = 0
  /\ returned = None
  /\ stages = <<>>
  /\ prevInput = <<>>
  /\ prevReturned = None
  /\ flip = <<>>
  /\ calls = <<>>
  /\ engine = None

\* a call of AES::encode(plaintext, key_bytes, mode)
CallEncode(plaintext, key_bytes, mode_arg) ==
  /\ op = "init"
  /\ op' = "encode"
  /\ usedKey' = key_bytes
  /\ usedMode' = mode_arg
  /\ input' = plaintext
  /\ returned' = encode(plaintext, key_bytes, mode_arg)
  /\ stages' = call_stages("encode", plaintext, key_bytes, mode_arg)
  /\ UNCHANGED <<calls, usedBlockSize, prevInput, prevReturned, flip, engine>>

\* a call of AES::decode(ciphertext, key_bytes, mode)
CallDecode(ciphertext, key_bytes, mode_arg) ==
  /\ op = "init"
  /\ op' = "decode"
  /\ usedKey' = key_bytes
  /\ usedMode' = mode_arg
  /\ input' = ciphertext
  /\ returned' = decode(ciphertext, key_bytes, mode_arg)
  /\ stages' = call_stages("decode", ciphertext, key_bytes, mode_arg)
  /\ UNCHANGED <<calls, usedBlockSize, prevInput, prevReturned, flip, engine>>

\* AES::decode of the ciphertext the last encode returned, same key and mode
DecodeEncoded ==
  /\ op = "encode"
  /\ returned.tag = "Ok"
  /\ op' = "decode_encoded"
  /\ input' = returned.val
  /\ returned' = decode(returned.val, usedKey, usedMode)
  /\ stages' = call_stages("decode", returned.val, usedKey, usedMode)
  /\ prevInput' = input
  /\ prevReturned' = returned
  /\ UNCHANGED <<calls, usedKey, usedMode, usedBlockSize, flip, engine>>

\* --- challenge16: the oracle, and the caller that changes its ciphertext ---
\* b"comment1=cooking%20MCs;userdata="
Comment1 == <<99, 111, 109, 109, 101, 110, 116, 49, 61, 99, 111, 111, 107, 105, 110, 103,
              37, 50, 48, 77, 67, 115, 59, 117, 115, 101, 114, 100, 97, 116, 97, 61>>
\* b";comment2=%20like%20a%20pound%20of%20bacon"
Comment2 == <<59, 99, 111, 109, 109, 101, 110, 116, 50, 61, 37, 50, 48, 108, 105, 107,
              101, 37, 50, 48, 97, 37, 50, 48, 112, 111, 117, 110, 100, 37, 50, 48,
              111, 102, 37, 50, 48, 98, 97, 99, 111, 110>>
\* b";admin=true;"
AdminTrue == <<59, 97, 100, 109, 105, 110, 61, 116, 114, 117, 101, 59>>
\* b"abcde9admin9true", the input main sends
AdminInput == <<97, 98, 99, 100, 101, 57, 97, 100, 109, 105, 110, 57, 116, 114, 117, 101>>

\* Oracle::sanitize_input: the input without its b';' (59) and b'=' (61)
sanitize_input(bytes) == SelectSeq(bytes, LAMBDA c : c # 59 /\ c # 61)

\* Oracle::prepare_plaintext: the input between the two comments, padded
prepare_plaintext(bytes) == pkcs_padding(Comment1 \o bytes \o Comment2, AES_BLOCK_SIZE % U8)

\* Oracle::modify_and_encrypt_string under the oracle's key and iv
modify_and_encrypt_string(bytes, key, iv) ==
  encode(prepare_plaintext(sanitize_input(bytes)), key, CBC(iv))

\* Oracle::decrypt_and_look_for_admin_true: the error of AES::decode, or whether
\* some window of 12 bytes of the plaintext is b";admin=true;"
decrypt_and_look_for_admin_true(ciphertext, key, iv) ==
  LET plaintext_bytes == decode(ciphertext, key, CBC(iv))
  IN  IF plaintext_bytes.tag # "Ok" THEN plaintext_bytes
      ELSE Ok(\E s \in 1..(Len(plaintext_bytes.val) - Len(AdminTrue) + 1) :
                SubSeq(plaintext_bytes.val, s, s + Len(AdminTrue) - 1) = AdminTrue)

\* the panic of indexing a Vec past its end
IndexOutOfBounds == [tag |-> "Panic", val |-> <<>>, err |-> "index out of bounds", arg |-> 0]

\* oracle.modify_and_encrypt_string(&bytes) of main
CallModifyAndEncryptString(bytes, key, iv) ==
  /\ op = "init"
  /\ op' = "encode"
  /\ usedKey' = key
  /\ usedMode' = CBC(iv)
  /\ input' = prepare_plaintext(sanitize_input(bytes))
  /\ returned' = modify_and_encrypt_string(bytes, key, iv)
  /\ stages' = call_stages("encode", prepare_plaintext(sanitize_input(bytes)), key, CBC(iv))
  /\ UNCHANGED <<calls, usedBlockSize, prevInput, prevReturned, flip, engine>>

\* `ciphertext[index] ^= mask` on the ciphertext held: the one just returned by an
\* encode, the one just decoded, or the one already changed. An index past the
\* end panics and leaves the ciphertext as it was.
XorCiphertextByte(index, mask) ==
  /\ op \in {"encode", "decode", "modified", "flipped"}
  /\ IF op \in {"encode", "decode"} THEN returned.tag = "Ok" ELSE returned = None
  /\ LET ciphertext == IF op = "encode" THEN returned.val ELSE input
     IN  /\ op' = IF op \in {"encode", "modified"} THEN "modified" ELSE "flipped"
         /\ flip' = Append(flip, [byte |-> index, mask |-> mask])
         /\ input' = IF index < Len(ciphertext)
                        THEN [ciphertext EXCEPT ![index + 1] = Xor(@, mask)]
                        ELSE ciphertext
         /\ returned' = IF index < Len(ciphertext) THEN None ELSE IndexOutOfBounds
         /\ prevInput' = IF op \in {"encode", "decode"} THEN input ELSE prevInput
         /\ prevReturned' = IF op \in {"encode", "decode"} THEN returned ELSE prevReturned
  /\ UNCHANGED <<calls, usedKey, usedMode, usedBlockSize, stages, engine>>

\* AES::decode of the changed ciphertext, under the key and mode of the decode
\* that went before the changes
DecodeFlipped ==
  /\ op = "flipped"
  /\ returned = None
  /\ op' = "decode_flipped"
  /\ returned' = decode(input, usedKey, usedMode)
  /\ stages' = call_stages("decode", input, usedKey, usedMode)
  /\ UNCHANGED <<calls, usedKey, usedMode, input, usedBlockSize, prevInput, prevReturned, flip, engine>>

\* oracle.decrypt_and_look_for_admin_true(&ciphertext) of main, on the changed
\* ciphertext: `returned` is what its AES::decode returned, `calls` what it returned
CallDecryptAndLookForAdminTrue ==
  /\ op = "modified"
  /\ returned = None
  /\ usedMode.kind = "CBC"
  /\ op' = "decode_modified"
  /\ returned' = decode(input, usedKey, usedMode)
  /\ stages' = call_stages("decode", input, usedKey, usedMode)
  /\ calls' = <<[which |-> "decrypt_and_look_for_admin_true",
                 result |-> decrypt_and_look_for_admin_true(input, usedKey, usedMode.iv)]>>
  /\ UNCHANGED <<usedKey, usedMode, input, usedBlockSize, prevInput, prevReturned, flip, engine>>

\* a call of pkcs_padding(bytes, final_length)
CallPad(bytes, final_length) ==
  /\ op = "init"
  /\ op' = "pad"
  /\ input' = bytes
  /\ usedBlockSize' = final_length
  /\ returned' = Ok(pkcs_padding(bytes, final_length))
  /\ UNCHANGED <<calls, usedKey, usedMode, stages, prevInput, prevReturned, flip, engine>>

\* a call of has_valid_pkcs_padding(bytes, block_size)
CallValidate(bytes, size) ==
  /\ op = "init"
  /\ op' = "validate"
  /\ input' = bytes
  /\ usedBlockSize' = size
  /\ returned' = has_valid_pkcs_padding(bytes, size)
  /\ UNCHANGED <<calls, usedKey, usedMode, stages, prevInput, prevReturned, flip, engine>>

\* has_valid_pkcs_padding of the buffer the last pkcs_padding returned, same block size
ValidatePadded ==
  /\ op = "pad"
  /\ op' = "validate_padded"
  /\ input' = returned.val
  /\ returned' = has_valid_pkcs_padding(returned.val, usedBlockSize)
  /\ prevInput' = input
  /\ prevReturned' = returned
  /\ UNCHANGED <<calls, usedKey, usedMode, usedBlockSize, stages, flip, engine>>

\* the caller drops the outcome of its last calls and starts over
Forget ==
  /\ op # "init"
  /\ op' = "init"
  /\ usedKey' = <<>>
  /\ usedMode' = ECB
  /\ input' = <<>>
  /\ usedBlockSize' = 0
  /\ returned' = None
  /\ stages' = <<>>
  /\ prevInput' = <<>>
  /\ prevReturned' = None
  /\ flip' = <<>>
  /\ calls' = <<>>
  /\ engine' = None

\* --- encode, then decode what it returned (16-byte keys; ECB, CBC, CTR) ---
Encode == \E p \in Texts, k \in Keys16, m \in Modes : CallEncode(p, k, m)

Next == Encode \/ DecodeEncoded \/ Forget

Spec == Init /\ [][Next]_vars

\* --- keys of every length, every mode ---
KeyTexts == {<<>>, Text(5, 2), Text(16, 2)}

EncodeAnyKey == \E p \in KeyTexts, k \in KeysAnyLen, m \in AllModes : CallEncode(p, k, m)

DecodeAnyKey == \E c \in KeyTexts, k \in KeysAnyLen, m \in AllModes : CallDecode(c, k, m)

NextKey == EncodeAnyKey \/ DecodeAnyKey \/ Forget

SpecKey == Init /\ [][NextKey]_vars

\* --- CBC decode of a ciphertext, then of the ciphertext with one bit flipped;
\* --- and the run of challenge16: encrypt, change two bytes, decrypt ---
DecodeCBC == \E c \in Ciphertexts, k \in Keys16, iv \in IVs : CallDecode(c, k, CBC(iv))

\* one bit of the ciphertext just decoded, at an index that may lie past its end
Flip ==
  \E blk \in 0..MaxBlocks, off \in FlipOffsets, bit \in 0..7 :
    op = "decode" /\ XorCiphertextByte(16 * blk + off, 2 ^ bit)

OracleIVs == IVs \cup {[i \in 1..16 |-> 0]}

ModifyAndEncrypt ==
  \E k \in Keys16, iv \in OracleIVs : CallModifyAndEncryptString(AdminInput, k, iv)

\* the two changes of main, in its order: b'9' ^ b';' at byte 5 and b'9' ^ b'='
\* at byte 11 of the second block
AdminChanges == <<[byte |-> AES_BLOCK_SIZE + 5, mask |-> Xor(57, 59)],
                  [byte |-> AES_BLOCK_SIZE + 11, mask |-> Xor(57, 61)]>>

ChangeForAdmin ==
  /\ op \in {"encode", "modified"}
  /\ Len(flip) < Len(AdminChanges)
  /\ XorCiphertextByte(AdminChanges[Len(flip) + 1].byte, AdminChanges[Len(flip) + 1].mask)

\* the decryption of main, made once both changes are in
DecryptChanged == Len(flip) = Len(AdminChanges) /\ CallDecryptAndLookForAdminTrue

NextFlip ==
  \/ DecodeCBC
  \/ Flip
  \/ DecodeFlipped
  \/ ModifyAndEncrypt
  \/ ChangeForAdmin
  \/ DecryptChanged
  \/ Forget

SpecFlip == Init /\ [][NextFlip]_vars

\* --- padding and its validator ---
Pad == \E b \in PadBuffers, n \in PadSizes : CallPad(b, n)

Validate == \E b \in ValBuffers, n \in BlockSizes : CallValidate(b, n)

NextPad == Pad \/ ValidatePadded \/ Validate \/ Forget

SpecPad == Init /\ [][NextPad]_vars

\* --- the repository's known-answer runs: round keys, one round, ECB of two equal blocks ---
\* the body of test_aes_128_compute_all_round_keys: the engine's round keys for a key
compute_all_round_keys(initial_key) ==
  LET made == create_from(initial_key, ECB)
  IN  IF made.tag = "Err" THEN made ELSE Ok(aes_128_get_round_keys(made.val.key))

\* the body of test_aes_128_one_round: the block after each step of round 1,
\* each as as_hex_string() shows it (to_flat_array)
one_round(plaintext, initial_key) ==
  LET round_keys == aes_128_get_round_keys(create_from(initial_key, ECB).val.key)
      first_block == add_round_key(divide_in_blocks(plaintext).val[1], round_keys, 0)
      subbed_bytes == sub_bytes(first_block)
      shifted_rows == shift_rows(subbed_bytes)
      mixed_columns == mix_columns(shifted_rows, FALSE)
      result == add_round_key(mixed_columns, round_keys, 1)
  IN  Ok(<<to_flat_array(subbed_bytes), to_flat_array(shifted_rows),
           to_flat_array(mixed_columns), to_flat_array(result)>>)

CallRoundKeys(key_bytes) ==
  /\ op = "init"
  /\ op' = "round_keys"
  /\ usedKey' = key_bytes
  /\ returned' = compute_all_round_keys(key_bytes)
  /\ UNCHANGED <<calls, usedMode, input, usedBlockSize, stages, prevInput, prevReturned, flip, engine>>

CallOneRound(plaintext, key_bytes) ==
  /\ op = "init"
  /\ op' = "one_round"
  /\ usedKey' = key_bytes
  /\ input' = plaintext
  /\ returned' = one_round(plaintext, key_bytes)
  /\ UNCHANGED <<calls, usedMode, usedBlockSize, stages, prevInput, prevReturned, flip, engine>>

NumVecKeys == 4     \* keys offered to the known-answer runs, besides the tests' key
NumVecSeeds == 6    \* 16-byte blocks offered to them, besides the tests' block

\* "Thats my Kung Fu" and "Two One Nine Two"
KungFuKey == <<84, 104, 97, 116, 115, 32, 109, 121, 32, 75, 117, 110, 103, 32, 70, 117>>
TwoOneNineTwo == <<84, 119, 111, 32, 79, 110, 101, 32, 78, 105, 110, 101, 32, 84, 119, 111>>

VectorKeys == {KungFuKey} \cup {KeyBytes(16, seed) : seed \in 1..NumVecKeys}
VectorBlocks == {TwoOneNineTwo} \cup {Text(16, seed) : seed \in 1..NumVecSeeds}

RoundKeys == \E k \in VectorKeys : CallRoundKeys(k)

OneRound == \E p \in VectorBlocks, k \in VectorKeys : CallOneRound(p, k)

EncodeTwice == \E b \in VectorBlocks, k \in VectorKeys : CallEncode(b \o b, k, ECB)

NextVector == RoundKeys \/ OneRound \/ EncodeTwice \/ DecodeEncoded \/ Forget

SpecVector == Init /\ [][NextVector]_vars

\* --- encode, then decode of the same buffer with the same key and mode ---
\* AES::decode of the buffer the last encode was given, same key and mode
DecodeSame ==
  /\ op = "encode"
  /\ op' = "decode_same"
  /\ returned' = decode(input, usedKey, usedMode)
  /\ stages' = call_stages("decode", input, usedKey, usedMode)
  /\ prevInput' = input
  /\ prevReturned' = returned
  /\ UNCHANGED <<calls, usedKey, usedMode, input, usedBlockSize, flip, engine>>

NextSame == Encode \/ DecodeSame \/ Forget

SpecSame == Init /\ [][NextSame]_vars

\* --- block splitting called directly ---
\* a call of AES::divide_in_blocks(text)
CallDivide(text) ==
  /\ op = "init"
  /\ op' = "divide_in_blocks"
  /\ input' = text
  /\ returned' = divide_in_blocks(text)
  /\ UNCHANGED <<calls, usedKey, usedMode, usedBlockSize, stages, prevInput, prevReturned, flip, engine>>

\* a call of AESBlock::from_bytes(bytes)
CallFromBytes(bytes) ==
  /\ op = "init"
  /\ op' = "from_bytes"
  /\ input' = bytes
  /\ returned' = AESBlock_from_bytes(bytes)
  /\ UNCHANGED <<calls, usedKey, usedMode, usedBlockSize, stages, prevInput, prevReturned, flip, engine>>

MaxSplitLen == 49   \* buffer lengths 0..MaxSplitLen offered to the block splitters

SplitBuffers == {Text(len, seed) : len \in 0..MaxSplitLen, seed \in 1..NumSeeds}

Divide == \E b \in SplitBuffers : CallDivide(b)

FromBytes == \E b \in SplitBuffers : CallFromBytes(b)

NextSplit == Divide \/ FromBytes \/ Forget

SpecSplit == Init /\ [][NextSplit]_vars

\* --- a run of several calls of the engine, one after the other ---
MaxCalls == 3       \* calls in a run

\* the entry of AES::encode (which = "encode") or AES::decode (which = "decode")
\* after the calls made so far: `let aes = Self::create_from(key_bytes, mode)`
RunCreateFrom(which, buffer, key_bytes, mode_arg) ==
  /\ op \in {"init", "run"}
  /\ Len(calls) < MaxCalls
  /\ op' = IF which = "encode" THEN "run_encode" ELSE "run_decode"
  /\ usedKey' = key_bytes
  /\ usedMode' = mode_arg
  /\ input' = buffer
  /\ engine' = create_from(key_bytes, mode_arg)
  /\ returned' = None
  /\ stages' = <<"create_from">>
  /\ UNCHANGED <<calls, usedBlockSize, prevInput, prevReturned, flip>>

\* the rest of AES::encode, on the engine its create_from made, up to its return
RunEncodeMatch ==
  /\ op = "run_encode"
  /\ op' = "run"
  /\ returned' = encode_match(engine, input)
  /\ stages' = call_stages("encode", input, usedKey, usedMode)
  /\ calls' = Append(calls, [which |-> "encode", buffer |-> input, key |-> usedKey,
                             mode |-> usedMode, returned |-> returned'])
  /\ UNCHANGED <<usedKey, usedMode, input, usedBlockSize, prevInput, prevReturned, flip, engine>>

\* the rest of AES::decode, on the engine its create_from made, up to its return
RunDecodeMatch ==
  /\ op = "run_decode"
  /\ op' = "run"
  /\ returned' = decode_match(engine, input)
  /\ stages' = call_stages("decode", input, usedKey, usedMode)
  /\ calls' = Append(calls, [which |-> "decode", buffer |-> input, key |-> usedKey,
                             mode |-> usedMode, returned |-> returned'])
  /\ UNCHANGED <<usedKey, usedMode, input, usedBlockSize, prevInput, prevReturned, flip, engine>>

\* the arguments of the calls of a run: buffers of 1 and 17 bytes, two 16-byte
\* keys and a 15-byte key, the three modes
RunArguments ==
  {<<Text(1, 2), KeyBytes(16, 1), ECB>>,
   <<Text(1, 2), KeyBytes(16, 2), ECB>>,
   <<Text(17, 2), KeyBytes(16, 1), CBC([i \in 1..16 |-> 0])>>,
   <<Text(17, 2), KeyBytes(16, 2), CTR(1)>>,
   <<Text(1, 2), KeyBytes(15, 1), ECB>>}

EncodeInRun == \E a \in RunArguments : RunCreateFrom("encode", a[1], a[2], a[3])

DecodeInRun == \E a \in RunArguments : RunCreateFrom("decode", a[1], a[2], a[3])

\* between the invocations of a run, never inside one
ForgetRun == op = "run" /\ Forget

NextRun == EncodeInRun \/ DecodeInRun \/ RunEncodeMatch \/ RunDecodeMatch \/ ForgetRun

SpecRun == Init /\ [][NextRun]_vars

\* --- CBC encodes, with the repository's known answer among them ---
\* test_aes_128_cbc_encode: "Aguante Bocaaaaa" twice, key "YELLOW SUBMARINE", iv of zeros
AguanteBoca ==
  <<65, 103, 117, 97, 110, 116, 101, 32, 66, 111, 99, 97, 97, 97, 97, 97,
    65, 103, 117, 97, 110, 116, 101, 32, 66, 111, 99, 97, 97, 97, 97, 97>>
YellowSubmarine == <<89, 69, 76, 76, 79, 87, 32, 83, 85, 66, 77, 65, 82, 73, 78, 69>>
ZeroIV == <<0, 0, 0, 0, 0, 0, 0, 0, 0, 0, 0, 0, 0, 0, 0, 0>>
AguanteBocaCipher ==
  <<180, 170, 26, 103, 104, 40, 162, 43, 109, 131, 38, 236, 150, 197, 38, 25,
    72, 133, 203, 138, 38, 37, 222, 37, 76, 64, 137, 194, 150, 18, 87, 244>>

EncodeCBC == \E p \in Texts, k \in Keys16, iv \in IVs \cup {ZeroIV} : CallEncode(p, k, CBC(iv))

EncodeCBCVector == CallEncode(AguanteBoca, YellowSubmarine, CBC(ZeroIV))

NextChain == EncodeCBC \/ EncodeCBCVector \/ DecodeEncoded \/ Forget

SpecChain == Init /\ [][NextChain]_vars

\* --- CTR calls, with the repository's known answer among them ---
\* test_aes_128_ctr_encode: plaintext and expected ciphertext, key "YELLOW SUBMARINE", nonce 0
BocaYoTeAmo ==
  <<66, 79, 67, 65, 32, 89, 79, 32, 84, 69, 32, 65, 77, 79, 32, 89, 79, 32, 84, 69, 32, 83,
    73, 71, 79, 32, 65, 32, 84, 79, 68, 79, 83, 32, 76, 65, 68, 79, 83, 32, 68, 69, 32, 67,
    79, 82, 65, 90, 79, 78>>
BocaYoTeAmoCipher ==
  <<52, 158, 136, 10, 143, 251, 9, 194, 183, 234, 35, 28, 33, 92, 227, 43, 157, 204, 56,
    153, 184, 62, 91, 153, 128, 250, 94, 179, 251, 161, 55, 87, 126, 128, 194, 138, 85, 52,
    100, 107, 135, 159, 151, 101, 253, 174, 197, 151, 142, 206>>

EncodeCTR == \E p \in Texts, k \in Keys16, n \in Nonces : CallEncode(p, k, CTR(n))

EncodeCTRVector == CallEncode(BocaYoTeAmo, YellowSubmarine, CTR(0))

NextStream == EncodeCTR \/ EncodeCTRVector \/ DecodeEncoded \/ Forget

SpecStream == Init /\ [][NextStream]_vars

\* --- one round and its inverse, called on a block directly ---
\* the body of test_one_inverse_round: the block after each step of the
\* inverse of round 1, each as as_hex_string() shows it
one_inverse_round(cipherblock, initial_key) ==
  LET round_keys == aes_128_get_round_keys(create_from(initial_key, ECB).val.key)
      keyed == add_round_key(AESBlock_from_bytes(cipherblock).val[1], round_keys, 1)
      unmixed == inv_mix_columns(keyed, FALSE)
      unshifted == inv_shift_rows(unmixed)
      plaintext == inv_sub_bytes(unshifted)
  IN  Ok(<<to_flat_array(keyed), to_flat_array(unmixed),
           to_flat_array(unshifted), to_flat_array(plaintext)>>)

CallOneInverseRound(cipherblock, key_bytes) ==
  /\ op = "init"
  /\ op' = "one_inverse_round"
  /\ usedKey' = key_bytes
  /\ input' = cipherblock
  /\ returned' = one_inverse_round(cipherblock, key_bytes)
  /\ UNCHANGED <<calls, usedMode, usedBlockSize, stages, prevInput, prevReturned, flip, engine>>

\* block.apply_round(&round_keys, round, ignore) on the block of 16 bytes,
\* with the round keys of the key
CallApplyRound(block, key_bytes, round, ignore) ==
  /\ op = "init"
  /\ op' = "apply_round"
  /\ usedKey' = key_bytes
  /\ input' = block
  /\ calls' = <<[which |-> "apply_round", round |-> round, ignore |-> ignore]>>
  /\ returned' = Ok(to_flat_array(apply_round(
                      from_flat_array(block),
                      aes_128_get_round_keys(create_from(key_bytes, ECB).val.key),
                      round, ignore)))
  /\ UNCHANGED <<usedMode, usedBlockSize, stages, prevInput, prevReturned, flip, engine>>

\* block.apply_inverse_round(&round_keys, round, ignore) on the block the last
\* apply_round returned, with the same round keys, round and flag
CallApplyInverseRound ==
  /\ op = "apply_round"
  /\ op' = "apply_inverse_round"
  /\ input' = returned.val
  /\ returned' = Ok(to_flat_array(apply_inverse_round(
                      from_flat_array(returned.val),
                      aes_128_get_round_keys(create_from(usedKey, ECB).val.key),
                      calls[1].round, calls[1].ignore)))
  /\ prevInput' = input
  /\ prevReturned' = returned
  /\ UNCHANGED <<calls, usedKey, usedMode, usedBlockSize, stages, flip, engine>>

\* the block test_one_inverse_round starts from, 5847088b15b61cba59d4e2e8cd39dfce
KungFuRoundOneOutput == <<88, 71, 8, 139, 21, 182, 28, 186, 89, 212, 226, 232, 205, 57, 223, 206>>

ApplyRound ==
  \E b \in VectorBlocks, k \in VectorKeys, r \in 0..AES128_ROUNDS, f \in BOOLEAN :
    CallApplyRound(b, k, r, f)

OneInverseRound ==
  \E b \in VectorBlocks \cup {KungFuRoundOneOutput}, k \in VectorKeys : CallOneInverseRound(b, k)

NextRound == ApplyRound \/ CallApplyInverseRound \/ OneInverseRound \/ Forget

SpecRound == Init /\ [][NextRound]_vars

\* --- one transform of a block and its inverse, called on a block directly ---
\* block.sub_bytes(), block.shift_rows() or block.mix_columns(ignore) on the
\* block of 16 bytes
transform(mat, which, ignore) ==
  IF which = "sub_bytes" THEN sub_bytes(mat)
  ELSE IF which = "shift_rows" THEN shift_rows(mat)
  ELSE mix_columns(mat, ignore)

\* block.inv_sub_bytes(), block.inv_shift_rows() or block.inv_mix_columns(ignore)
inverse_transform(mat, which, ignore) ==
  IF which = "sub_bytes" THEN inv_sub_bytes(mat)
  ELSE IF which = "shift_rows" THEN inv_shift_rows(mat)
  ELSE inv_mix_columns(mat, ignore)

CallTransform(block, which, ignore) ==
  /\ op = "init"
  /\ op' = "transform"
  /\ input' = block
  /\ calls' = <<[which |-> which, ignore |-> ignore]>>
  /\ returned' = Ok(to_flat_array(transform(from_flat_array(block), which, ignore)))
  /\ UNCHANGED <<usedKey, usedMode, usedBlockSize, stages, prevInput, prevReturned, flip, engine>>

\* the inverse of the last transform, with the same flag, on the block it returned
CallInverseTransform ==
  /\ op = "transform"
  /\ op' = "inverse_transform"
  /\ input' = returned.val
  /\ returned' = Ok(to_flat_array(inverse_transform(from_flat_array(returned.val),
                                                    calls[1].which, calls[1].ignore)))
  /\ prevInput' = input
  /\ prevReturned' = returned
  /\ UNCHANGED <<calls, usedKey, usedMode, usedBlockSize, stages, flip, engine>>

\* blocks that hold every byte value between them (the first is the tests' 0..16)
ByteBlocks == {[i \in 1..16 |-> 16 * b + (i - 1)] : b \in 0..15}
\* blocks with one byte 1 and fifteen bytes 0
UnitBlocks == {[i \in 1..16 |-> IF i = p THEN 1 ELSE 0] : p \in 1..16}
TransformBlocks == ByteBlocks \cup UnitBlocks \cup VectorBlocks

Transform ==
  \E b \in TransformBlocks :
    \/ CallTransform(b, "sub_bytes", FALSE)
    \/ CallTransform(b, "shift_rows", FALSE)
    \/ \E f \in BOOLEAN : CallTransform(b, "mix_columns", f)

NextTransform == Transform \/ CallInverseTransform \/ Forget

SpecTransform == Init /\ [][NextTransform]_vars

\* --- GF(2^8) multiplication called directly ---
\* the calls galois_multiplication(x, 0), galois_multiplication(x, 1), ..,
\* galois_multiplication(x, 255), and their results in that order
CallGalois(x) ==
  /\ op = "init"
  /\ op' = "galois_multiplication"
  /\ input' = <<x>>
  /\ returned' = Ok(GaloisRange(x, 0, U8 - 1))
  /\ UNCHANGED <<calls, usedKey, usedMode, usedBlockSize, stages, prevInput, prevReturned, flip, engine>>

Galois == \E x \in 0..(U8 - 1) : CallGalois(x)

NextGalois == Galois \/ Forget

SpecGalois == Init /\ [][NextGalois]_vars

\* --- a block made from a slice, and read back as an array ---
\* a call of AESBlock::try_from(value)
CallTryFrom(value) ==
  /\ op = "init"
  /\ op' = "try_from"
  /\ input' = value
  /\ returned' = AESBlock_try_from(value)
  /\ UNCHANGED <<calls, usedKey, usedMode, usedBlockSize, stages, prevInput, prevReturned, flip, engine>>

\* block.to_flat_array() on the block the last try_from returned
CallToFlatArray ==
  /\ op = "try_from"
  /\ returned.tag = "Ok"
  /\ op' = "to_flat_array"
  /\ input' = returned.val
  /\ returned' = Ok(to_flat_array(returned.val))
  /\ prevInput' = input
  /\ prevReturned' = returned
  /\ UNCHANGED <<calls, usedKey, usedMode, usedBlockSize, stages, flip, engine>>

\* the arrays of test_from_flat_array_and_as_flatten_array_roundtrip and
\* test_try_from_slice_invalid
LayoutArrays == {[i \in 1..16 |-> i], [i \in 1..15 |-> 1]}

TryFrom == \E v \in SplitBuffers \cup TransformBlocks \cup LayoutArrays : CallTryFrom(v)

NextLayout == TryFrom \/ CallToFlatArray \/ Forget

SpecLayout == Init /\ [][NextLayout]_vars

\* --- ECB and CBC decodes of buffers of every length ---
DecodeAnyLength ==
  \E c \in SplitBuffers \cup LongTexts, k \in Keys16, m \in {ECB} \cup {CBC(iv) : iv \in IVs} :
    CallDecode(c, k, m)

NextRagged == DecodeAnyLength \/ Forget

SpecRagged == Init /\ [][NextRagged]_vars

\* --- CBC decode of a ciphertext, then of the same ciphertext under another IV ---
\* AES::decode of the last decoded ciphertext with the same key and the mode
\* CBC(iv ^ difference), iv being the IV of the last decode
DecodeOtherIV(difference) ==
  /\ op = "decode"
  /\ usedMode.kind = "CBC"
  /\ returned.tag = "Ok"
  /\ op' = "decode_other_iv"
  /\ calls' = <<[which |-> "decode", difference |-> difference]>>
  /\ usedMode' = CBC([n \in 1..16 |-> Xor(usedMode.iv[n], difference[n])])
  /\ returned' = decode(input, usedKey, usedMode')
  /\ stages' = call_stages("decode", input, usedKey, usedMode')
  /\ prevInput' = input
  /\ prevReturned' = returned
  /\ UNCHANGED <<usedKey, input, usedBlockSize, flip, engine>>

\* differences in one byte of the IV, as the padding-oracle attack makes them,
\* and one in every byte
Differences ==
  {[n \in 1..16 |-> IF n = p THEN v ELSE 0] : p \in {1, 15, 16}, v \in {1, 128, 255}}
    \cup {Text(16, 1)}

DecodeCBCAnyIV ==
  \E c \in Ciphertexts, k \in Keys16, iv \in IVs \cup {ZeroIV} : CallDecode(c, k, CBC(iv))

OtherIV == \E d \in Differences : DecodeOtherIV(d)

NextMalleable == DecodeCBCAnyIV \/ OtherIV \/ Forget

SpecMalleable == Init /\ [][NextMalleable]_vars

\* ------------------------------------------------------------------------
\* Properties
\* ------------------------------------------------------------------------
\* block j (from 0) of a block-aligned buffer
Block(buffer, j) == SubSeq(buffer, 16 * j + 1, 16 * j + 16)

\* C1: ECB round trip. For a 16-byte key and a plaintext whose length is a
\* positive multiple of 16, decoding under ECB what ECB encode returned gives
\* Ok(plaintext).
ECBRoundTrip ==
  (/\ op = "decode_encoded"
   /\ usedMode.kind = "ECB"
   /\ Len(usedKey) = 16
   /\ Len(prevInput) > 0
   /\ Len(prevInput) % 16 = 0)
  => returned = Ok(prevInput)

ECBRoundTripWitness ==
  /\ op = "decode_encoded"
  /\ usedMode.kind = "ECB"
  /\ Len(prevInput) = 32
  /\ prevReturned.val # prevInput
  /\ returned = Ok(prevInput)

\* C2: CBC round trip. For a 16-byte key, a 16-byte IV and a plaintext whose
\* length is a positive multiple of 16, decoding under CBC(iv) what CBC(iv)
\* encode returned gives Ok(plaintext).
CBCRoundTrip ==
  (/\ op = "decode_encoded"
   /\ usedMode.kind = "CBC"
   /\ Len(usedKey) = 16
   /\ Len(usedMode.iv) = 16
   /\ Len(prevInput) > 0
   /\ Len(prevInput) % 16 = 0)
  => returned = Ok(prevInput)

CBCRoundTripWitness ==
  /\ op = "decode_encoded"
  /\ usedMode.kind = "CBC"
  /\ Len(prevInput) = 32
  /\ prevReturned.val # prevInput
  /\ returned = Ok(prevInput)

\* C3: CTR round trip. For a 16-byte key, a nonce and a plaintext of any
\* length (empty, partial final chunk, 256 bytes and more), decoding under
\* CTR(nonce) what CTR(nonce) encode returned gives Ok(plaintext).
CTRRoundTrip ==
  (/\ op = "decode_encoded"
   /\ usedMode.kind = "CTR"
   /\ Len(usedKey) = 16)
  => returned = Ok(prevInput)

CTRRoundTripWitness ==
  /\ op = "decode_encoded"
  /\ usedMode.kind = "CTR"
  /\ Len(prevInput) = 17
  /\ prevReturned.val # prevInput
  /\ returned = Ok(prevInput)

\* C4: pad definition. For a buffer of any length and a block size n in
\* 1..255, pkcs_padding returns the buffer unchanged when len mod n = 0 and
\* otherwise the buffer followed by (n - len mod n) bytes equal to that count.
PadDefinition ==
  op = "pad" =>
    returned.val =
      IF Len(input) % usedBlockSize = 0 THEN input
      ELSE input \o Repeat(usedBlockSize - (Len(input) % usedBlockSize),
                           usedBlockSize - (Len(input) % usedBlockSize))

\* the padding validator's failure cases, as the claim lists them
PaddingInvalid(bytes, size) ==
  \/ Len(bytes) = 0
  \/ bytes[Len(bytes)] = 0
  \/ bytes[Len(bytes)] > size
  \/ Len(bytes) < bytes[Len(bytes)]
  \/ \E i \in (Len(bytes) - bytes[Len(bytes)] + 1)..Len(bytes) : bytes[i] # bytes[Len(bytes)]

\* C5: padding validator. has_valid_pkcs_padding returns Err(PaddingError),
\* without panicking, if the buffer is empty, its last byte v is 0, v exceeds
\* the block size, the buffer has fewer than v bytes, or one of the last v
\* bytes differs from v; in every other case it returns Ok(()).
PaddingValidator ==
  op \in {"validate", "validate_padded"} =>
    returned = IF PaddingInvalid(input, usedBlockSize) THEN PaddingError ELSE Ok(<<>>)

PaddingValidatorWitness ==
  /\ op = "validate"
  /\ Len(input) = 3
  /\ input[3] = 2
  /\ input[2] # 2
  /\ usedBlockSize = 16
  /\ returned = PaddingError

\* C6: pad then validate. For a buffer of any length and a block size n in
\* 1..255 with len mod n # 0, has_valid_pkcs_padding(pkcs_padding(buffer, n), n)
\* returns Ok(()).
PadThenValidate ==
  (op = "validate_padded" /\ Len(prevInput) % usedBlockSize # 0) => returned = Ok(<<>>)

\* C7: key-size rejection. With a key whose length L is not 16, 24 or 32,
\* encode and decode return Err(InvalidKeySize(L)) for every buffer and mode,
\* and no stage after the key's construction has run.
KeySizeRejection ==
  (op \in {"encode", "decode"} /\ Len(usedKey) \notin {16, 24, 32})
  => /\ returned = InvalidKeySize(Len(usedKey))
     /\ stages = <<"create_from">>

KeySizeRejectionWitness ==
  /\ op = "decode"
  /\ Len(usedKey) = 17
  /\ usedMode.kind = "GCM"
  /\ input = <<>>
  /\ returned = InvalidKeySize(17)

\* the last call, made again with another key
SameCall(key_bytes) ==
  IF op = "encode" THEN encode(input, key_bytes, usedMode) ELSE decode(input, key_bytes, usedMode)

\* C8: unsupported paths never succeed. With a 24- or 32-byte key in any
\* mode, or mode GCM with any valid key, encode and decode end in the
\* unimplemented fault: no Ok value, and not what the first 16 key bytes
\* would produce.
UnsupportedNeverSucceeds ==
  (/\ op \in {"encode", "decode"}
   /\ \/ Len(usedKey) \in {24, 32}
      \/ (usedMode.kind = "GCM" /\ Len(usedKey) \in {16, 24, 32}))
  => /\ returned = Unimplemented
     /\ returned.tag # "Ok"
     /\ stages = <<"create_from", "unimplemented">>
     /\ (usedMode.kind # "GCM" => returned # SameCall(SubSeq(usedKey, 1, 16)))

UnsupportedNeverSucceedsWitness ==
  /\ op = "encode"
  /\ Len(usedKey) = 32
  /\ usedMode.kind = "CBC"
  /\ Len(input) = 16
  /\ returned = Unimplemented
  /\ SameCall(SubSeq(usedKey, 1, 16)).tag = "Ok"

\* C9: CBC bit flip. Two block-aligned ciphertexts that differ in one bit of
\* block i decode, under the same 16-byte key and IV, to plaintexts equal in
\* every block other than i and i + 1, and different in block i + 1 in exactly
\* the bit at the position of the flipped bit. (Stated for every block i,
\* block 0 included; the second ciphertext is the first after one change of
\* one bit.)
CBCBitFlip ==
  (/\ op = "decode_flipped"
   /\ usedMode.kind = "CBC"
   /\ Len(usedKey) = 16
   /\ Len(flip) = 1
   /\ \E bit \in 0..7 : flip[1].mask = 2 ^ bit) =>
    LET i == flip[1].byte \div 16
        n == Len(input) \div 16
    IN  /\ returned.tag = "Ok"
        /\ prevReturned.tag = "Ok"
        /\ Len(returned.val) = Len(input)
        /\ Len(prevReturned.val) = Len(input)
        /\ \A j \in 0..(n - 1) :
             j \notin {i, i + 1} => Block(returned.val, j) = Block(prevReturned.val, j)
        /\ i + 1 < n =>
             \A q \in 0..15 :
               Xor(returned.val[16 * (i + 1) + q + 1], prevReturned.val[16 * (i + 1) + q + 1])
                 = IF q = flip[1].byte % 16 THEN flip[1].mask ELSE 0

CBCBitFlipWitness ==
  /\ op = "decode_flipped"
  /\ usedMode.kind = "CBC"
  /\ Len(input) = 48
  /\ Len(flip) = 1
  /\ flip[1].byte \div 16 = 1
  /\ flip[1].mask = 128
  /\ input # prevInput
  /\ Block(returned.val, 1) # Block(prevReturned.val, 1)
  /\ Block(returned.val, 2) # Block(prevReturned.val, 2)
  /\ Block(returned.val, 0) = Block(prevReturned.val, 0)

\* the blocks of a block-aligned buffer, each passed to the engine on its own
EachBlockAlone(which, buffer, key_bytes) ==
  Flatten([j \in 1..(Len(buffer) \div 16) |->
             IF which = "encode" THEN encode(Block(buffer, j - 1), key_bytes, ECB).val
             ELSE decode(Block(buffer, j - 1), key_bytes, ECB).val])

\* C10: ECB block independence. For a 16-byte key and a block-aligned buffer,
\* output block i of ECB encode (and of ECB decode) depends on input block i
\* and the key only: the output is the concatenation of the outputs for each
\* block alone, and equal input blocks give equal output blocks.
ECBBlockIndependence ==
  (/\ op \in {"encode", "decode_encoded"}
   /\ usedMode.kind = "ECB"
   /\ Len(usedKey) = 16
   /\ Len(input) > 0
   /\ Len(input) % 16 = 0)
  => /\ returned.tag = "Ok"
     /\ returned.val = EachBlockAlone(IF op = "encode" THEN "encode" ELSE "decode", input, usedKey)
     /\ \A j, k \in 0..((Len(input) \div 16) - 1) :
          Block(input, j) = Block(input, k) => Block(returned.val, j) = Block(returned.val, k)

ECBBlockIndependenceWitness ==
  /\ op = "encode"
  /\ usedMode.kind = "ECB"
  /\ Len(input) = 32
  /\ Block(input, 0) = Block(input, 1)
  /\ returned.tag = "Ok"
  /\ Block(returned.val, 0) = Block(returned.val, 1)

\* C11: ciphertext length. For a 16-byte key and a non-empty plaintext of L
\* bytes (L >= 256 included), ECB encode and CBC encode return exactly
\* 16 * ceil(L / 16) bytes: an aligned plaintext gains no padding block.
CiphertextLength ==
  (/\ op = "encode"
   /\ usedMode.kind \in {"ECB", "CBC"}
   /\ Len(usedKey) = 16
   /\ Len(input) > 0)
  => /\ returned.tag = "Ok"
     /\ Len(returned.val) = 16 * ((Len(input) + 15) \div 16)

CiphertextLengthWitness ==
  /\ op = "encode"
  /\ usedMode.kind = "CBC"
  /\ Len(input) = U8
  /\ returned.tag = "Ok"
  /\ Len(returned.val) = U8

\* hex 29c3505f571420f6402299b31a02d73a
KungFuCipherBlock == <<41, 195, 80, 95, 87, 20, 32, 246, 64, 34, 153, 179, 26, 2, 215, 58>>

\* the four blocks test_aes_128_one_round asserts: 63c0ab20eb2f30cb9f93af2ba092c7a2,
\* 632fafa2eb93c7209f92abcba0c0302b, ba75f47a84a48d32e88d060e1b407d5d,
\* 5847088b15b61cba59d4e2e8cd39dfce
KungFuRoundOne ==
  << <<99, 192, 171, 32, 235, 47, 48, 203, 159, 147, 175, 43, 160, 146, 199, 162>>,
     <<99, 47, 175, 162, 235, 147, 199, 32, 159, 146, 171, 203, 160, 192, 48, 43>>,
     <<186, 117, 244, 122, 132, 164, 141, 50, 232, 141, 6, 14, 27, 64, 125, 93>>,
     <<88, 71, 8, 139, 21, 182, 28, 186, 89, 212, 226, 232, 205, 57, 223, 206>> >>

\* C12: AES-128 known answer. Under the key "Thats my Kung Fu", ECB encode of
\* "Two One Nine Two" twice returns 29c3505f571420f6402299b31a02d73a twice, ECB
\* decode of that returns the plaintext, and the block after sub_bytes,
\* shift_rows, mix_columns and add_round_key of round 1 is the one the
\* one-round test asserts.
KnownAnswer ==
  /\ (/\ op = "encode"
      /\ usedKey = KungFuKey
      /\ input = TwoOneNineTwo \o TwoOneNineTwo)
     => returned = Ok(KungFuCipherBlock \o KungFuCipherBlock)
  /\ (/\ op = "decode_encoded"
      /\ usedKey = KungFuKey
      /\ input = KungFuCipherBlock \o KungFuCipherBlock)
     => returned = Ok(TwoOneNineTwo \o TwoOneNineTwo)
  /\ (/\ op = "one_round"
      /\ usedKey = KungFuKey
      /\ input = TwoOneNineTwo)
     => returned = Ok(KungFuRoundOne)

KnownAnswerWitness ==
  /\ op = "decode_encoded"
  /\ usedKey = KungFuKey
  /\ input = KungFuCipherBlock \o KungFuCipherBlock
  /\ prevInput = TwoOneNineTwo \o TwoOneNineTwo
  /\ returned = Ok(prevInput)

\* word i (from 0) of a round-key sequence
KeyWord(keys, i) == SubSeq(keys, 4 * i + 1, 4 * i + 4)

XorWords(a, b) == <<Xor(a[1], b[1]), Xor(a[2], b[2]), Xor(a[3], b[3]), Xor(a[4], b[4])>>

\* a word rotated left one byte, each byte through the S-box, the first byte
\* XORed with round constant r (constants numbered from 1)
RotSubRcon(w, r) ==
  <<Xor(S_BOX[w[2] + 1], ROUND_CONSTANTS[r]), S_BOX[w[3] + 1], S_BOX[w[4] + 1], S_BOX[w[1] + 1]>>

\* hex e232fcf191129188b159e4e6d679a293 and 28fddef86da4244accc0a4fe3b316f26
KungFuRoundKey1 == <<226, 50, 252, 241, 145, 18, 145, 136, 177, 89, 228, 230, 214, 121, 162, 147>>
KungFuRoundKey10 == <<40, 253, 222, 248, 109, 164, 36, 74, 204, 192, 164, 254, 59, 49, 111, 38>>

\* C13: key schedule. For a 16-byte key aes_128_get_round_keys returns 176
\* bytes, round key 0 is the key, and for i in 4..43 word i is word i - 4 XOR
\* temp, temp being word i - 1, rotated, S-boxed and XORed with round constant
\* i / 4 exactly when i mod 4 = 0. For "Thats my Kung Fu" round keys 1 and 10
\* are the ones the repository's test lists.
KeySchedule ==
  (/\ op = "round_keys"
   /\ Len(usedKey) = 16)
  => /\ returned.tag = "Ok"
     /\ Len(returned.val) = 176
     /\ SubSeq(returned.val, 1, 16) = usedKey
     /\ \A i \in 4..43 :
          KeyWord(returned.val, i) =
            XorWords(KeyWord(returned.val, i - 4),
                     IF i % 4 = 0 THEN RotSubRcon(KeyWord(returned.val, i - 1), i \div 4)
                     ELSE KeyWord(returned.val, i - 1))
     /\ usedKey = KungFuKey
        => /\ SubSeq(returned.val, 17, 32) = KungFuRoundKey1
           /\ SubSeq(returned.val, 161, 176) = KungFuRoundKey10

KeyScheduleWitness ==
  /\ op = "round_keys"
  /\ usedKey = KungFuKey
  /\ returned.tag = "Ok"
  /\ SubSeq(returned.val, 161, 176) = KungFuRoundKey10

\* C14: CTR symmetry. For every buffer, 16-byte key and nonce, AES::decode of
\* the buffer returns the same value as AES::encode of it under CTR.
CTRSymmetry ==
  (/\ op = "decode_same"
   /\ usedMode.kind = "CTR"
   /\ Len(usedKey) = 16)
  => returned = prevReturned

CTRSymmetryWitness ==
  /\ op = "decode_same"
  /\ usedMode.kind = "CTR"
  /\ Len(input) = 33
  /\ returned.tag = "Ok"
  /\ returned.val # input
  /\ returned = prevReturned

\* C15: InvalidBlockSize is unreachable through the engine. For a buffer of
\* any length (0 included), a 16-byte key and mode ECB, CBC or CTR, AES::encode
\* and AES::decode never return Err(InvalidBlockSize).
EngineNeverInvalidBlockSize ==
  (/\ op \in {"encode", "decode", "decode_encoded", "decode_same"}
   /\ Len(usedKey) = 16
   /\ usedMode.kind \in {"ECB", "CBC", "CTR"})
  => ~(returned.tag = "Err" /\ returned.err = "InvalidBlockSize")

\* C16: block splitting rejects misaligned buffers. AES::divide_in_blocks and
\* AESBlock::from_bytes, given a buffer whose length is not a multiple of 16,
\* return Err(InvalidBlockSize(len)): no block list is returned and no trailing
\* bytes are dropped.
SplittingRejectsMisaligned ==
  (/\ op \in {"divide_in_blocks", "from_bytes"}
   /\ Len(input) % 16 # 0)
  => returned = InvalidBlockSize(Len(input))

\* C17: padding-failure indistinguishability. Every failure of
\* has_valid_pkcs_padding returns the same payload-free PaddingError, whichever
\* check failed and whichever byte mismatched, so any two failures are equal;
\* and PaddingError differs from the other errors the engine returns.
PaddingFailureUniform ==
  /\ (/\ op \in {"validate", "validate_padded"}
      /\ returned.tag # "Ok")
     => returned = PaddingError
  /\ \A n \in 0..(U8 + MaxWrap) :
       /\ PaddingError # InvalidKeySize(n)
       /\ PaddingError # InvalidBlockSize(n)

\* a failure on a mismatching byte that is not the first byte of the buffer
PaddingFailureUniformWitness ==
  /\ op = "validate"
  /\ Len(input) = 4
  /\ input[4] = 3
  /\ input[2] = 3
  /\ input[3] # 3
  /\ usedBlockSize = 16
  /\ returned = PaddingError

\* C18: statelessness. Whatever calls were made before, two calls of the same
\* entry point with the same buffer, key bytes and mode return the same result:
\* the engine an invocation reads is the one its own create_from made, whatever
\* engine the invocation before left.
Stateless ==
  \A i, j \in 1..Len(calls) :
    (/\ calls[i].which = calls[j].which
     /\ calls[i].buffer = calls[j].buffer
     /\ calls[i].key = calls[j].key
     /\ calls[i].mode = calls[j].mode)
    => calls[i].returned = calls[j].returned

\* the same call before and after a call with another buffer, key and mode that
\* returned another result, the engine of the last call still in place
StatelessWitness ==
  /\ op = "run"
  /\ Len(calls) = 3
  /\ calls[1].which = calls[3].which
  /\ calls[1].buffer = calls[3].buffer
  /\ calls[1].key = calls[3].key
  /\ calls[1].mode = calls[3].mode
  /\ calls[2].key # calls[1].key
  /\ calls[2].mode # calls[1].mode
  /\ calls[2].buffer # calls[1].buffer
  /\ calls[2].returned.tag = "Ok"
  /\ calls[2].returned # calls[1].returned
  /\ calls[1].returned.tag = "Ok"
  /\ calls[3].returned = calls[1].returned
  /\ engine.tag = "Ok"
  /\ engine.val.key.variant = "AES128Key"

\* C19: key schedule computed once. A call of encode or decode that returns a
\* result derives the round keys exactly once, in every mode and for every
\* buffer length.
KeyScheduleOnce ==
  (op \in {"encode", "decode"} /\ returned.tag = "Ok")
    => Cardinality({n \in DOMAIN stages : stages[n] = "get_round_keys"}) = 1

\* C20: CBC encode chaining. With P_0..P_m the blocks of the padded plaintext
\* and E the engine's ECB encryption of one block under the same key, the
\* ciphertext blocks are C_0 = E(P_0 xor IV) and C_i = E(P_i xor C_(i-1)) for
\* i >= 1, the previous ciphertext block; the repository's CBC vector encodes
\* to its expected ciphertext.
CBCChaining ==
  (op = "encode" /\ usedMode.kind = "CBC" /\ returned.tag = "Ok")
    => LET padded == pkcs_padding(input, AES_BLOCK_SIZE % U8)
           XorBlock(a, b) == [n \in 1..16 |-> Xor(a[n], b[n])]
           E(block) == encode(block, usedKey, ECB).val
       IN  /\ Len(returned.val) = Len(padded)
           /\ \A i \in 0..(Len(padded) \div 16 - 1) :
                Chunk_exact(returned.val, i) =
                  E(XorBlock(Chunk_exact(padded, i),
                             IF i = 0 THEN usedMode.iv ELSE Chunk_exact(returned.val, i - 1)))
           /\ (input = AguanteBoca /\ usedKey = YellowSubmarine /\ usedMode.iv = ZeroIV)
                => returned.val = AguanteBocaCipher

\* a CBC encode of two equal plaintext blocks, with an IV that is not zero,
\* whose two ciphertext blocks differ
CBCChainingWitness ==
  /\ op = "encode"
  /\ usedMode.kind = "CBC"
  /\ returned.tag = "Ok"
  /\ Len(returned.val) = 32
  /\ usedMode.iv # ZeroIV
  /\ Chunk_exact(input, 0) = Chunk_exact(input, 1)
  /\ Chunk_exact(returned.val, 0) # Chunk_exact(returned.val, 1)
\* C21: CBC decode snapshot. With C_0..C_m the blocks of the ciphertext as the
\* caller supplied it and D the engine's ECB decryption of one block under
\* the same key, the plaintext blocks are P_0 = D(C_0) xor IV and
\* P_i = D(C_i) xor C_(i-1) for i >= 1: the original ciphertext block, never
\* the block already overwritten with plaintext.
CBCDecodeSnapshot ==
  (/\ op \in {"decode", "decode_flipped", "decode_modified"}
   /\ usedMode.kind = "CBC"
   /\ returned.tag = "Ok"
   /\ Len(input) % 16 = 0)
    => LET XorBlock(a, b) == [n \in 1..16 |-> Xor(a[n], b[n])]
           D(block) == decode(block, usedKey, ECB).val
       IN  /\ Len(returned.val) = Len(input)
           /\ \A i \in 0..(Len(input) \div 16 - 1) :
                Chunk_exact(returned.val, i) =
                  XorBlock(D(Chunk_exact(input, i)),
                           IF i = 0 THEN usedMode.iv ELSE Chunk_exact(input, i - 1))

\* a CBC decode of three blocks, each overwritten by a plaintext block that
\* differs from it
CBCDecodeSnapshotWitness ==
  /\ op = "decode"
  /\ usedMode.kind = "CBC"
  /\ returned.tag = "Ok"
  /\ Len(input) = 48
  /\ Len(returned.val) = 48
  /\ \A i \in 0..2 : Chunk_exact(returned.val, i) # Chunk_exact(input, i)

\* C22: CTR keystream. A CTR call returns Ok with exactly as many bytes as the
\* buffer has (none for an empty buffer); byte n of chunk c (c = 0, 1, ...) is
\* the buffer's byte XOR byte n of E(le64(nonce) || le64(c)), E being the
\* engine's ECB encryption, whose output for that 16-byte block has 16 bytes
\* (nonces and counters here are below 2^24, so their bytes 3..7 are zero);
\* the repository's CTR vector encodes to its expected ciphertext.
CTRKeystream ==
  (op \in {"encode", "decode_encoded"} /\ usedMode.kind = "CTR")
    => LET le64(x) == [n \in 1..8 |-> IF n <= 3 THEN (x \div (256 ^ (n - 1))) % 256 ELSE 0]
           keystream(c) == encode(le64(usedMode.nonce) \o le64(c), usedKey, ECB)
       IN  /\ returned.tag = "Ok"
           /\ Len(returned.val) = Len(input)
           /\ \A c \in 0..((Len(input) + 15) \div 16 - 1) :
                LET s == keystream(c)
                IN  /\ s.tag = "Ok"
                    /\ Len(s.val) = 16
                    /\ \A n \in 1..16 :
                         16 * c + n <= Len(input)
                           => returned.val[16 * c + n] = Xor(input[16 * c + n], s.val[n])
           /\ (op = "encode" /\ input = BocaYoTeAmo /\ usedKey = YellowSubmarine
                 /\ usedMode.nonce = 0)
                => returned.val = BocaYoTeAmoCipher

\* a CTR encode of two whole chunks and a partial one, with a nonce that is
\* not zero, whose first two keystream blocks differ
CTRKeystreamWitness ==
  /\ op = "encode"
  /\ usedMode.kind = "CTR"
  /\ usedMode.nonce # 0
  /\ returned.tag = "Ok"
  /\ Len(input) = 47
  /\ Len(returned.val) = 47
  /\ encode(to_le_bytes(usedMode.nonce) \o to_le_bytes(0), usedKey, ECB)
       # encode(to_le_bytes(usedMode.nonce) \o to_le_bytes(1), usedKey, ECB)

\* C23: round ordering. Every block of an ECB encode is add_round_key(0)
\* followed by apply_round for rounds 1, 2, ..., 10 in that order, with
\* mix_columns skipped in round 10 only; every block of an ECB decode is
\* apply_inverse_round for rounds 10, 9, ..., 1 in that order, with
\* inv_mix_columns skipped in round 10 only, followed by add_round_key(0).
\* Each of the eleven 16-byte round keys of the 176-byte sequence is used
\* once per block.
RoundOrdering ==
  LET rk == aes_128_get_round_keys(create_from(usedKey, ECB).val.key)
      EncodeOrdered(block) ==
        LET s0 == add_round_key(from_flat_array(block), rk, 0)
            s1 == apply_round(s0, rk, 1, FALSE)
            s2 == apply_round(s1, rk, 2, FALSE)
            s3 == apply_round(s2, rk, 3, FALSE)
            s4 == apply_round(s3, rk, 4, FALSE)
            s5 == apply_round(s4, rk, 5, FALSE)
            s6 == apply_round(s5, rk, 6, FALSE)
            s7 == apply_round(s6, rk, 7, FALSE)
            s8 == apply_round(s7, rk, 8, FALSE)
            s9 == apply_round(s8, rk, 9, FALSE)
            s10 == apply_round(s9, rk, 10, TRUE)
        IN  IF /\ Len(s0) = 4 /\ Len(s1) = 4 /\ Len(s2) = 4 /\ Len(s3) = 4 /\ Len(s4) = 4
               /\ Len(s5) = 4 /\ Len(s6) = 4 /\ Len(s7) = 4 /\ Len(s8) = 4 /\ Len(s9) = 4
            THEN to_flat_array(s10) ELSE <<>>
      DecodeOrdered(block) ==
        LET t10 == apply_inverse_round(from_flat_array(block), rk, 10, TRUE)
            t9 == apply_inverse_round(t10, rk, 9, FALSE)
            t8 == apply_inverse_round(t9, rk, 8, FALSE)
            t7 == apply_inverse_round(t8, rk, 7, FALSE)
            t6 == apply_inverse_round(t7, rk, 6, FALSE)
            t5 == apply_inverse_round(t6, rk, 5, FALSE)
            t4 == apply_inverse_round(t5, rk, 4, FALSE)
            t3 == apply_inverse_round(t4, rk, 3, FALSE)
            t2 == apply_inverse_round(t3, rk, 2, FALSE)
            t1 == apply_inverse_round(t2, rk, 1, FALSE)
            t0 == add_round_key(t1, rk, 0)
        IN  IF /\ Len(t10) = 4 /\ Len(t9) = 4 /\ Len(t8) = 4 /\ Len(t7) = 4 /\ Len(t6) = 4
               /\ Len(t5) = 4 /\ Len(t4) = 4 /\ Len(t3) = 4 /\ Len(t2) = 4 /\ Len(t1) = 4
            THEN to_flat_array(t0) ELSE <<>>
  IN  /\ (op = "encode" /\ usedMode.kind = "ECB" /\ returned.tag = "Ok")
        => LET padded == pkcs_padding(input, AES_BLOCK_SIZE % U8)
           IN  /\ Len(rk) = 176
               /\ Len(returned.val) = Len(padded)
               /\ \A i \in 0..(Len(padded) \div 16 - 1) :
                    Chunk_exact(returned.val, i) = EncodeOrdered(Chunk_exact(padded, i))
      /\ (op = "decode_encoded" /\ usedMode.kind = "ECB" /\ returned.tag = "Ok")
        => /\ Len(rk) = 176
           /\ Len(returned.val) = Len(input)
           /\ \A i \in 0..(Len(input) \div 16 - 1) :
                Chunk_exact(returned.val, i) = DecodeOrdered(Chunk_exact(input, i))

\* an ECB decode of the three blocks an ECB encode returned
RoundOrderingWitness ==
  /\ op = "decode_encoded"
  /\ usedMode.kind = "ECB"
  /\ prevReturned.tag = "Ok"
  /\ Len(prevReturned.val) = 48
  /\ returned.tag = "Ok"
  /\ Len(returned.val) = 48
  /\ returned.val # input

\* the four blocks test_one_inverse_round asserts: ba75f47a84a48d32e88d060e1b407d5d,
\* 632fafa2eb93c7209f92abcba0c0302b, 63c0ab20eb2f30cb9f93af2ba092c7a2,
\* 001f0e543c4e08596e221b0b4774311a
KungFuInverseRoundOne ==
  << <<186, 117, 244, 122, 132, 164, 141, 50, 232, 141, 6, 14, 27, 64, 125, 93>>,
     <<99, 47, 175, 162, 235, 147, 199, 32, 159, 146, 171, 203, 160, 192, 48, 43>>,
     <<99, 192, 171, 32, 235, 47, 48, 203, 159, 147, 175, 43, 160, 146, 199, 162>>,
     <<0, 31, 14, 84, 60, 78, 8, 89, 110, 34, 27, 11, 71, 116, 49, 26>> >>

\* C24: inverse round. For every round 0..10 and either value of the flag,
\* apply_round is sub_bytes, shift_rows, mix_columns (skipped if the flag is
\* set), add_round_key(round) in that order; apply_inverse_round with the same
\* round keys, round and flag on its result is add_round_key(round),
\* inv_mix_columns (skipped if the flag is set), inv_shift_rows, inv_sub_bytes
\* in that order and returns the original block; the steps of the inverse of
\* round 1 on the inverse-round test's block are the blocks that test asserts.
InverseRound ==
  LET rk == aes_128_get_round_keys(create_from(usedKey, ECB).val.key)
      r == calls[1].round
      f == calls[1].ignore
      Mixed(mat) == IF f THEN mat ELSE matrix_gmult(MIX_COLUMN_CT, mat)
      Unmixed(mat) == IF f THEN mat ELSE matrix_gmult(INV_MIX_COLUMN_CT, mat)
  IN  /\ op = "apply_round"
        => returned.val = to_flat_array(add_round_key(
                            Mixed(shift_rows(sub_bytes(from_flat_array(input)))), rk, r))
      /\ op = "apply_inverse_round"
        => /\ returned.val = to_flat_array(inv_sub_bytes(inv_shift_rows(
                               Unmixed(add_round_key(from_flat_array(input), rk, r)))))
           /\ returned.val = prevInput
      /\ (op = "one_inverse_round" /\ usedKey = KungFuKey /\ input = KungFuRoundOneOutput)
        => returned = Ok(KungFuInverseRoundOne)

\* the inverse of a round that mixes the columns and changed every byte
InverseRoundWitness ==
  /\ op = "apply_inverse_round"
  /\ calls[1].round = 5
  /\ ~calls[1].ignore
  /\ \A n \in 1..16 : input[n] # prevInput[n]
  /\ returned.val = prevInput

\* C25: elementary transforms are invertible. shift_rows then inv_shift_rows,
\* sub_bytes then inv_sub_bytes, and mix_columns(false) then
\* inv_mix_columns(false) return the original block; shift_rows moves to
\* row r, column c the byte of row r, column (c + r) mod 4 (row r rotated left
\* by r, row 0 unchanged); mix_columns(true) and inv_mix_columns(true) leave
\* the block unchanged.
TransformsInvertible ==
  /\ op = "inverse_transform" => returned.val = prevInput
  /\ (op = "transform" /\ calls[1].which = "shift_rows")
       => \A r \in 0..3, c \in 0..3 :
            returned.val[4 * c + r + 1] = input[4 * ((c + r) % 4) + r + 1]
  /\ (op \in {"transform", "inverse_transform"} /\ calls[1].which = "mix_columns"
        /\ calls[1].ignore)
       => returned.val = input

\* the inverse of a mix_columns(false) that changed every byte of the block
TransformsInvertibleWitness ==
  /\ op = "inverse_transform"
  /\ calls[1].which = "mix_columns"
  /\ ~calls[1].ignore
  /\ \A n \in 1..16 : input[n] # prevInput[n]
  /\ returned.val = prevInput

\* XOR of two values of up to 16 bits, by bytes
Xor16(u, v) == 256 * Xor(u \div 256, v \div 256) + Xor(u % 256, v % 256)

\* the product of a and b as polynomials over GF(2): the XOR of a * x^i over
\* the bits i, i + 1, .., 7 that are set in b (up to 15 bits)
RECURSIVE CarrylessProduct(_, _, _)
CarrylessProduct(a, b, i) ==
  IF i = 8 THEN 0
  ELSE Xor16(IF (b \div (2 ^ i)) % 2 = 1 THEN a * (2 ^ i) ELSE 0,
             CarrylessProduct(a, b, i + 1))

\* v reduced modulo x^8 + x^4 + x^3 + x + 1 (0x11B = 283): the terms of
\* degree bit, bit - 1, .., 8 are cancelled in turn
RECURSIVE ReduceModulo(_, _)
ReduceModulo(v, bit) ==
  IF bit < 8 THEN v
  ELSE ReduceModulo(IF (v \div (2 ^ bit)) % 2 = 1 THEN Xor16(v, 283 * (2 ^ (bit - 8))) ELSE v,
                    bit - 1)

\* 1, 2, 4, .., 128: every byte is the XOR of some of them
BitBytes == {2 ^ k : k \in 0..7}

\* C26: GF(2^8) multiplication. For every pair of bytes a and b,
\* galois_multiplication(a, b) is a byte, equals the product of a and b as
\* polynomials over GF(2) reduced modulo x^8 + x^4 + x^3 + x + 1, equals
\* galois_multiplication(b, a), is the other factor when one factor is 1 and 0
\* when one factor is 0, and distributes over XOR: the product of a and b ^ c
\* is the XOR of the products of a with b and with c, for every b and each c
\* of one bit, hence for every c.
GaloisProduct ==
  op = "galois_multiplication"
    => LET a == input[1]
           product == returned.val
       IN  /\ returned.tag = "Ok"
           /\ Len(product) = 256
           /\ \A b \in 0..255 :
                /\ product[b + 1] \in 0..255
                /\ product[b + 1] = ReduceModulo(CarrylessProduct(a, b, 0), 14)
                /\ product[b + 1] = galois_multiplication(b, a)
                /\ (a = 1 => product[b + 1] = b)
                /\ (b = 1 => product[b + 1] = a)
                /\ (a = 0 \/ b = 0) => product[b + 1] = 0
                /\ \A c \in BitBytes :
                     product[Xor(b, c) + 1] = Xor(product[b + 1], product[c + 1])

\* the products of 255, among them 255 * 255, whose polynomial has degree 14
\* and needs every reduction step
GaloisProductWitness ==
  /\ op = "galois_multiplication"
  /\ input = <<255>>
  /\ CarrylessProduct(255, 255, 0) >= 2 ^ 14
  /\ returned.val[256] = 19
  /\ returned.val[2] = 255
  /\ returned.val[1] = 0
\* C27: block layout round trip. AESBlock::try_from on a slice of 16 bytes
\* gives the block that from_flat_array makes of it, with byte i at row
\* i mod 4, column i div 4, and to_flat_array of that block is the slice
\* again; on a slice of any other length it returns
\* Err(InvalidBlockSize(len)).
BlockLayout ==
  /\ (op = "try_from" /\ Len(input) = 16)
       => /\ returned.tag = "Ok"
          /\ \A i \in 0..15 : returned.val[(i % 4) + 1][(i \div 4) + 1] = input[i + 1]
  /\ (op = "try_from" /\ Len(input) # 16)
       => returned = InvalidBlockSize(Len(input))
  /\ op = "to_flat_array" => returned = Ok(prevInput)

\* the array 1..16 of the round-trip test, made a block and read back
BlockLayoutWitness ==
  /\ op = "to_flat_array"
  /\ prevInput = [i \in 1..16 |-> i]
  /\ input[2][1] = 2
  /\ input[1][2] = 5
  /\ returned = Ok(prevInput)

\* C28: decode does not strip or validate padding. For a 16-byte key and a
\* non-empty plaintext p of any length, ECB or CBC decode of what the same
\* mode's encode returned is Ok(pkcs_padding(p, 16)): p itself when its length
\* is a multiple of 16, else p followed by its padding bytes, which stay in
\* the result; the result is never PaddingError, whether or not the recovered
\* bytes end in valid padding.
DecodeKeepsPadding ==
  (/\ op = "decode_encoded"
   /\ usedMode.kind \in {"ECB", "CBC"}
   /\ Len(usedKey) = 16
   /\ Len(prevInput) > 0)
  => /\ returned = Ok(pkcs_padding(prevInput, AES_BLOCK_SIZE % U8))
     /\ returned # PaddingError
     /\ SubSeq(returned.val, 1, Len(prevInput)) = prevInput
     /\ Len(prevInput) % 16 # 0
          => /\ Len(returned.val) = 16 * (Len(prevInput) \div 16) + 16
             /\ \A n \in (Len(prevInput) + 1)..Len(returned.val) :
                  returned.val[n] = Len(returned.val) - Len(prevInput)

\* a CBC decode whose recovered plaintext does not end in valid padding and
\* is returned all the same
DecodeKeepsPaddingWitness ==
  /\ op = "decode_encoded"
  /\ usedMode.kind = "CBC"
  /\ Len(prevInput) = 32
  /\ returned = Ok(prevInput)
  /\ has_valid_pkcs_padding(returned.val, AES_BLOCK_SIZE % U8) = PaddingError

\* C29: decode pads misaligned ciphertext. For a 16-byte key and a non-empty
\* ciphertext whose length L is not a multiple of 16, ECB and CBC decode
\* return Ok with 16 * ceil(L / 16) bytes: the result of decoding the
\* ciphertext followed by its PKCS#7 bytes, whose blocks inside the original
\* ciphertext are the decode of its aligned prefix.
DecodePadsMisaligned ==
  (/\ op = "decode"
   /\ usedMode.kind \in {"ECB", "CBC"}
   /\ Len(usedKey) = 16
   /\ Len(input) > 0
   /\ Len(input) % 16 # 0)
  => LET whole == 16 * (Len(input) \div 16)
         pad == 16 - (Len(input) % 16)
         padded == input \o [n \in 1..pad |-> pad]
     IN  /\ returned.tag = "Ok"
         /\ Len(returned.val) = whole + 16
         /\ returned = decode(padded, usedKey, usedMode)
         /\ whole > 0
              => SubSeq(returned.val, 1, whole)
                   = decode(SubSeq(input, 1, whole), usedKey, usedMode).val

\* a CBC decode of two blocks and one byte more, returned as three blocks
DecodePadsMisalignedWitness ==
  /\ op = "decode"
  /\ usedMode.kind = "CBC"
  /\ Len(input) = 33
  /\ returned.tag = "Ok"
  /\ Len(returned.val) = 48

\* C30: CBC IV malleability. For a 16-byte key, a block-aligned ciphertext, an
\* IV and a 16-byte difference d, CBC decode under the IV XOR d is the CBC
\* decode under the IV with block 0 XORed with d and every later block
\* unchanged.
IVMalleability ==
  (op = "decode_other_iv" /\ Len(input) % 16 = 0)
    => /\ returned.tag = "Ok"
       /\ Len(returned.val) = Len(prevReturned.val)
       /\ \A n \in 1..Len(returned.val) :
            returned.val[n] = IF n <= 16 THEN Xor(prevReturned.val[n], calls[1].difference[n])
                              ELSE prevReturned.val[n]

\* a decode of three blocks under an IV that differs in its last byte: the
\* last byte of block 0 changed, the other blocks did not
IVMalleabilityWitness ==
  /\ op = "decode_other_iv"
  /\ Len(input) = 48
  /\ calls[1].difference[16] = 255
  /\ calls[1].difference[1] = 0
  /\ returned.tag = "Ok"
  /\ returned.val[16] # prevReturned.val[16]
  /\ SubSeq(returned.val, 17, 48) = SubSeq(prevReturned.val, 17, 48)

====
